---- MODULE Spec2Model ----
(***************************************************************************)
(* Layout-and-composition core of tessera: the DimensionValue/Constraint   *)
(* algebra, the surface and switch components' measure closures, and the   *)
(* renderer's per-frame redraw cycle (compose, take events, compute,       *)
(* clear, render).                                                         *)
(***************************************************************************)
EXTENDS Integers, Sequences, FiniteSets, TLC

\* --------------------------------------------------------------------------
\* Bounds of the model
\* --------------------------------------------------------------------------
MaxLenIdx == 2
MaxEvents == 2
MaxFrames == 2

\* --------------------------------------------------------------------------
\* Px: a physical pixel length, an i32 (px.rs: pub struct Px(pub i32))
\* --------------------------------------------------------------------------
I32_MAX == 2147483647
I32_MIN == -I32_MAX - 1

\* a + b reduced to the i32 range, as a release build computes it.
\* The intermediate values below all stay inside the i32 range.
WrappingAdd(a, b) ==
    IF b > 0 /\ a > I32_MAX - b THEN (a - I32_MAX) + (b - I32_MAX) - 2
    ELSE IF b < 0 /\ a < I32_MIN - b THEN (a - I32_MIN) + (b - I32_MIN)
    ELSE a + b

AddOverflows(a, b) ==
    \/ b > 0 /\ a > I32_MAX - b
    \/ b < 0 /\ a < I32_MIN - b

\* a - b reduced to the i32 range.
WrappingSub(a, b) ==
    IF b > 0 /\ a < I32_MIN + b THEN (a - I32_MIN) + (I32_MAX - b) + 1
    ELSE IF b < 0 /\ a > I32_MAX + b THEN (a - I32_MAX) + (I32_MIN - b) - 1
    ELSE a - b

SubOverflows(a, b) ==
    \/ b > 0 /\ a < I32_MIN + b
    \/ b < 0 /\ a > I32_MAX + b

\* impl Add for Px: Px(self.0 + rhs.0)
PxAdd(a, b) == WrappingAdd(a, b)

\* impl Sub for Px: Px(self.0 - rhs.0)
PxSub(a, b) == WrappingSub(a, b)

\* impl Mul<i32> for Px, used by the surface only as padding_px * 2
PxMul2(a) == WrappingAdd(a, a)

Mul2Overflows(a) == AddOverflows(a, a)

\* Ord::max / Ord::min on Px
PxMax(a, b) == IF a >= b THEN a ELSE b

PxMin(a, b) == IF a <= b THEN a ELSE b

\* --------------------------------------------------------------------------
\* Option<Px> and DimensionValue
\* --------------------------------------------------------------------------
None == <<>>

Some(x) == <<x>>

IsSome(o) == o # <<>>

Unwrap(o) == o[1]

\* Option::map
OptMap(o, F(_)) == IF IsSome(o) THEN Some(F(Unwrap(o))) ELSE None

Fixed(v) == [kind |-> "Fixed", v |-> v]

Wrap(min, max) == [kind |-> "Wrap", min |-> min, max |-> max]

Fill(min, max) == [kind |-> "Fill", min |-> min, max |-> max]

Constraint(width, height) == [width |-> width, height |-> height]

\* The default dimension of a surface and the constraint a switch offers.
WrapNone == Wrap(None, None)

\* The tighter of two optional upper bounds.
TighterMax(a, b) ==
    IF IsSome(a) /\ IsSome(b) THEN Some(PxMin(Unwrap(a), Unwrap(b)))
    ELSE IF IsSome(a) THEN a
    ELSE b

\* The upper bound a parent-offered dimension supplies, if any.
ParentBound(parent_dim) ==
    IF parent_dim.kind = "Fixed" THEN Some(parent_dim.v) ELSE parent_dim.max

\* Lengths are clamped to be >= 0.
ClampZero(v) == PxMax(v, 0)

ClampDim(d) ==
    IF d.kind = "Fixed" THEN Fixed(ClampZero(d.v))
    ELSE [d EXCEPT !.min = OptMap(d.min, ClampZero), !.max = OptMap(d.max, ClampZero)]

\* A plausible slip of the merge: a Fill child under a Fixed parent stays a
\* Fill bounded by the parent instead of becoming Fixed.
merge_dimension_fill_bounded(child_dim, parent_dim) ==
    ClampDim(
      IF child_dim.kind = "Fixed" THEN child_dim
      ELSE IF child_dim.kind = "Wrap"
        THEN Wrap(child_dim.min, TighterMax(child_dim.max, ParentBound(parent_dim)))
      ELSE IF parent_dim.kind = "Fixed"
        THEN Fill(child_dim.min, Some(parent_dim.v))
      ELSE IF parent_dim.kind = "Fill" /\ IsSome(parent_dim.max)
        THEN Fill(child_dim.min, parent_dim.max)
      ELSE Wrap(child_dim.min, TighterMax(child_dim.max, parent_dim.max)))

\* Constraint::merge on one axis: own dimension child_dim against the
\* dimension parent_dim the parent offers.
merge_dimension(child_dim, parent_dim) ==
    ClampDim(
      IF child_dim.kind = "Fixed" THEN child_dim
      ELSE IF child_dim.kind = "Wrap"
        THEN Wrap(child_dim.min, TighterMax(child_dim.max, ParentBound(parent_dim)))
      ELSE IF parent_dim.kind = "Fixed"
        THEN Fixed(parent_dim.v)
      ELSE IF parent_dim.kind = "Fill" /\ IsSome(parent_dim.max)
        THEN Fill(child_dim.min, parent_dim.max)
      ELSE Wrap(child_dim.min, TighterMax(child_dim.max, parent_dim.max)))

\* Constraint::merge: both axes independently.
merge(own, parent) ==
    Constraint(merge_dimension(own.width, parent.width),
               merge_dimension(own.height, parent.height))

\* --------------------------------------------------------------------------
\* surface: the measure closure, one axis at a time (the code treats width
\* and height with two identical copies of each match)
\* --------------------------------------------------------------------------

\* measure_args.width.unwrap_or(Wrap { min: None, max: None })
surface_intrinsic_dim(arg) == IF IsSome(arg) THEN Unwrap(arg) ELSE WrapNone

\* A plausible slip: the receiver and the argument of merge exchanged.
effective_surface_dim_swapped(arg, parent_dim) ==
    merge_dimension(parent_dim, surface_intrinsic_dim(arg))

\* surface_intrinsic_constraint.merge(input.effective_constraint)
effective_surface_dim(arg, parent_dim) ==
    merge_dimension(surface_intrinsic_dim(arg), parent_dim)

\* (m - padding_2_px).max(Px(0))
sub_padding(m, padding_2_px) == PxMax(PxSub(m, padding_2_px), 0)

\* parent_provided_width of the Fill arm
parent_provided(parent_dim) ==
    IF parent_dim.kind = "Fixed" THEN Some(parent_dim.v)
    ELSE IF parent_dim.kind = "Fill" THEN parent_dim.max
    ELSE None

\* A plausible slip: the padding is not taken off the surface's own length.
child_constraint_dim_keeping_padding(eff, parent_dim, padding_2_px) ==
    IF eff.kind = "Fixed" THEN Fixed(PxMax(eff.v, 0))
    ELSE IF eff.kind = "Wrap" THEN Wrap(eff.min, eff.max)
    ELSE IF IsSome(parent_provided(parent_dim))
      THEN Fixed(PxMax(Unwrap(parent_provided(parent_dim)), 0))
    ELSE Wrap(None, eff.max)

\* child_constraint_width / child_constraint_height
child_constraint_dim(eff, parent_dim, padding_2_px) ==
    LET sub(m) == sub_padding(m, padding_2_px) IN
    IF eff.kind = "Fixed" THEN Fixed(sub(eff.v))
    ELSE IF eff.kind = "Wrap" THEN Wrap(OptMap(eff.min, sub), OptMap(eff.max, sub))
    ELSE IF IsSome(parent_provided(parent_dim))
      THEN Fixed(sub(Unwrap(parent_provided(parent_dim))))
    ELSE Wrap(None, OptMap(eff.max, sub))

\* The subtractions child_constraint_dim evaluates; each panics in a build
\* with overflow checks when it leaves the i32 range.
child_constraint_overflows(eff, parent_dim, padding_2_px) ==
    LET ovf(o) == IsSome(o) /\ SubOverflows(Unwrap(o), padding_2_px) IN
    IF eff.kind = "Fixed" THEN SubOverflows(eff.v, padding_2_px)
    ELSE IF eff.kind = "Wrap" THEN ovf(eff.min) \/ ovf(eff.max)
    ELSE IF IsSome(parent_provided(parent_dim)) THEN ovf(parent_provided(parent_dim))
    ELSE ovf(eff.max)

\* A plausible slip: a Fixed surface sized like a Wrap one, by its content.
final_surface_dim_by_content(eff, child_measured, padding_2_px) ==
    PxMax(IF eff.kind = "Fill" /\ IsSome(eff.max) THEN Unwrap(eff.max)
          ELSE PxAdd(child_measured, padding_2_px), 0)

\* final_surface_width / final_surface_height, with the final .max(Px(0))
final_surface_dim(eff, child_measured, padding_2_px) ==
    LET content_with_padding == PxAdd(child_measured, padding_2_px)
        raised(f, min) == IF IsSome(min) THEN PxMax(f, Unwrap(min)) ELSE f
        lowered(f, max) == IF IsSome(max) THEN PxMin(f, Unwrap(max)) ELSE f
        final ==
          IF eff.kind = "Fixed" THEN eff.v
          ELSE IF eff.kind = "Wrap"
            THEN lowered(raised(content_with_padding, eff.min), eff.max)
          ELSE raised(IF IsSome(eff.max) THEN Unwrap(eff.max) ELSE content_with_padding,
                      eff.min)
    IN PxMax(final, 0)

\* child_intrinsic_constraint.merge(&child_actual_constraint), one axis
final_child_constraint_dim(child_intrinsic_dim, child_actual_dim) ==
    merge_dimension(child_intrinsic_dim, child_actual_dim)

\* --------------------------------------------------------------------------
\* Input domains
\* --------------------------------------------------------------------------
LenValues == {25 * i : i \in 0..MaxLenIdx}

OptLenValues == {None} \cup {Some(v) : v \in LenValues}

DimValues ==
    {Fixed(v) : v \in LenValues}
      \cup {Wrap(a, b) : a \in OptLenValues, b \in OptLenValues}
      \cup {Fill(a, b) : a \in OptLenValues, b \in OptLenValues}

\* Paddings in px: negative, zero, ordinary, and one whose double leaves i32.
PadValues == {-10, 0, 10, 30, 1073741825}

ChildIntrinsicValues == {WrapNone, Fixed(25), Fill(None, None)}

NoDim == [kind |-> "NoDim"]

\* --------------------------------------------------------------------------
\* Components an entry closure can compose
\* --------------------------------------------------------------------------
SurfaceC(width, height, padding) ==
    [kind |-> "surface", width |-> width, height |-> height, padding |-> padding]

\* SwitchArgs with its builder defaults (Dp at scale factor 1)
SwitchC == [kind |-> "switch", checked |-> FALSE, width |-> 52, height |-> 32,
            thumb_padding |-> 3]

\* A text whose laid-out content is w x h when unconstrained
TextC(w, h) == [kind |-> "text", w |-> w, h |-> h]

\* A component whose measure closure returns a MeasurementError
FailingC == [kind |-> "failing"]

\* A component whose measure closure captures state outside the tree: it
\* measures to nothing in the first frame and fails from the second frame on
FailingLaterC == [kind |-> "failing_later"]

\* A container written against the measure/place API: it measures its first
\* child under Wrap{None,None}, makes the place calls listed (target "child"
\* is its first child, "absent" an identity it never declared) and returns
\* the child's size
CustomC(places) == [kind |-> "custom", places |-> places]

PlaceCall(target, x, y) == [target |-> target, position |-> [x |-> x, y |-> y]]

\* The thumb a switch composes: a surface Fixed to height - 2 * thumb_padding
ThumbOf(sw) ==
    LET thumb_size == sw.height - (sw.thumb_padding * 2) IN
    SurfaceC(Some(Fixed(thumb_size)), Some(Fixed(thumb_size)), 0)

\* alignment_showcase.rs: the demo container of row_demo_line
DemoSurface == SurfaceC(Some(Fixed(400)), Some(Fixed(70)), 10)

ExtraText == TextC(30, 10)

\* The entry closures explored.  chain[i + 1] is the content of chain[i];
\* extra lists the components composed as further children of the root.
Apps ==
    LET wrappers == { SurfaceC(None, None, 0),
                      SurfaceC(Some(Fill(None, None)), Some(Wrap(None, Some(60))), 20),
                      SurfaceC(Some(Fixed(100)), Some(Fixed(30)), 5) }
        plain == { <<DemoSurface, TextC(500, 20)>>,
                   <<DemoSurface, TextC(120, 90)>>,
                   <<DemoSurface, FailingC>>,
                   <<SwitchC>>,
                   <<SurfaceC(None, None, 1073741825), TextC(120, 20)>> }
        wrapped == { <<w, DemoSurface, TextC(500, 20)>> : w \in wrappers }
                     \cup { <<SurfaceC(None, None, 0), DemoSurface, FailingC>>,
                            <<SurfaceC(None, None, 5), SwitchC>> }
        custom == { <<DemoSurface, FailingLaterC>>,
                    <<CustomC(<<PlaceCall("absent", 7, 7)>>), TextC(120, 20)>>,
                    <<CustomC(<<PlaceCall("child", 1, 2), PlaceCall("child", 3, 4)>>),
                      TextC(120, 20)>> }
    IN { [chain |-> c, extra |-> <<>>] : c \in plain \cup wrapped \cup custom }
         \cup { [chain |-> <<SurfaceC(None, None, 0), DemoSurface, TextC(500, 20)>>,
                 extra |-> <<ExtraText>>],
                [chain |-> <<SurfaceC(None, None, 5), SwitchC>>,
                 extra |-> <<SwitchC>>] }

\* app.size(): the window's size in physical pixels
screen_size == <<800, 600>>

\* --------------------------------------------------------------------------
\* State
\* --------------------------------------------------------------------------
VARIABLES
    overflow_checks,   \* the build panics on integer overflow (debug) or wraps (release)
    probe,             \* one computation explored in isolation (a surface axis, a row, ...)
    app,               \* Renderer.entry_point
    switch_state,      \* the Arc<Mutex<SwitchState>> the application owns
    pc,                \* position of the event loop inside window_event
    frame,             \* number of frames rendered
    cursor_state,      \* Renderer.cursor_state: position and queued events
    keyboard_state,    \* Renderer.keyboard_state: queued events
    next_event_id,     \* identity of the next event (its timestamp order)
    tree,              \* TesseraRuntime.component_tree: the nodes
    metadatas,         \* the component tree's metadata table
    cursor_events,     \* the cursor events passed to compute in this frame
    keyboard_events,   \* the keyboard events passed to compute in this frame
    handlers_pending,  \* nodes whose state handler compute has still to call
    toggle_calls,      \* arguments of the on_toggle calls of this frame
    stack,             \* the call stack of measure_node
    ret,               \* the result the last measure_node call returned
    commands,          \* the draw commands compute returned
    screen,            \* what app.render last presented
    trace,             \* what happened so far, in order
    history            \* per frame, the event sequences passed to compute

rendererVars ==
    <<app, switch_state, pc, frame, cursor_state, keyboard_state, next_event_id,
      tree, metadatas, cursor_events, keyboard_events, handlers_pending,
      toggle_calls, stack, ret, commands, screen, trace, history>>

algebraVars == <<overflow_checks, probe>>

vars == <<overflow_checks, probe, rendererVars>>

NoRet == [ok |-> FALSE, pending |-> TRUE]

Ok(size) == [ok |-> TRUE, size |-> size]

Err(kind, node) == [ok |-> FALSE, error |-> [kind |-> kind, node |-> node]]

ComputedData(width, height) == [width |-> width, height |-> height]

PxPosition(x, y) == [x |-> x, y |-> y]

\* ComponentNodeMetaData::default()
DefaultMetaData ==
    [constraint |-> Constraint(WrapNone, WrapNone), computed_data |-> None,
     rel_position |-> None, basic_drawable |-> None]

\* --------------------------------------------------------------------------
\* CursorState / KeyboardState
\* --------------------------------------------------------------------------
update_position(cs, position) == [cs EXCEPT !.position = position]

push_event(cs, event) == [cs EXCEPT !.events = Append(@, event)]

\* CursorState::clear: the cursor has left the window
clear_cursor(cs) == update_position(cs, None)

\* take_events: the queued events, leaving the queue empty
take_events(cs) == [taken |-> cs.events, rest |-> [cs EXCEPT !.events = <<>>]]

\* CursorEventContent::from_press_event: None for an unsupported button
from_press_event(state, button) ==
    IF button \in {"Left", "Right", "Middle"} THEN Some(<<state, button>>) ELSE None

CursorPositions == {PxPosition(5, 5)}

\* --------------------------------------------------------------------------
\* Composition: the entry closure builds the tree, one node per component
\* --------------------------------------------------------------------------
ComposeTree(a, checked, base) ==
    LET k == Len(a.chain)
        hasThumb == a.chain[k].kind = "switch"
        thumbId == k + 1
        m == k + (IF hasThumb THEN 1 ELSE 0)
        hasExtra == a.extra # <<>>
        extraId == m + 1
        extraThumb == hasExtra /\ a.extra[1].kind = "switch"
        n == m + (IF hasExtra THEN 1 ELSE 0) + (IF extraThumb THEN 1 ELSE 0)
        composed(c) == IF c.kind = "switch" THEN [c EXCEPT !.checked = checked] ELSE c
        node(i) ==
          IF i <= k
            THEN [component |-> composed(a.chain[i]),
                  parent |-> IF i = 1 THEN 0 ELSE base + i - 1,
                  children |-> (IF i < k THEN <<base + i + 1>>
                                ELSE IF hasThumb THEN <<base + thumbId>> ELSE <<>>)
                               \o (IF i = 1 /\ hasExtra THEN <<base + extraId>> ELSE <<>>)]
          ELSE IF hasThumb /\ i = thumbId
            THEN [component |-> ThumbOf(a.chain[k]), parent |-> base + k,
                  children |-> <<>>]
          ELSE IF i = extraId
            THEN [component |-> composed(a.extra[1]), parent |-> base + 1,
                  children |-> IF extraThumb THEN <<base + extraId + 1>> ELSE <<>>]
          ELSE [component |-> ThumbOf(a.extra[1]), parent |-> base + extraId,
                children |-> <<>>]
    IN [i \in 1..n |-> node(i)]

ProbeOff ==
    [stage |-> "off", width_arg |-> None, parent |-> NoDim, padding |-> 0,
     child_intrinsic |-> NoDim, effective |-> NoDim, child_constraint |-> NoDim,
     final_child_constraint |-> NoDim, has_child |-> TRUE, child_size |-> 0,
     final |-> 0]

Emit(events) == trace' = trace \o events

Event(ev, node) == [ev |-> ev, node |-> node, frame |-> frame]

\* Renderer::run: empty queues, no cursor position, an empty runtime tree
RendererStart ==
    /\ frame = 0
    /\ cursor_state = [position |-> None, events |-> <<>>]
    /\ keyboard_state = [events |-> <<>>]
    /\ next_event_id = 1
    /\ tree = <<>>
    /\ metadatas = <<>>
    /\ cursor_events = <<>>
    /\ keyboard_events = <<>>
    /\ handlers_pending = <<>>
    /\ toggle_calls = <<>>
    /\ stack = <<>>
    /\ ret = NoRet
    /\ commands = <<>>
    /\ screen = <<>>
    /\ trace = <<>>
    /\ history = <<>>

\* SwitchState::new(initial_state), progress in percent
SwitchStateNew(initial_state) ==
    [checked |-> initial_state, progress |-> IF initial_state THEN 100 ELSE 0,
     last_toggle_time |-> None]

\* SwitchState::toggle
toggle(st, now) == [st EXCEPT !.checked = ~st.checked, !.last_toggle_time = Some(now)]

\* The state an application owning a switch hands to the first frame: a new
\* one, or one it has toggled already
InitialSwitchStates(a) ==
    IF a.chain = <<SwitchC>>
      THEN {SwitchStateNew(FALSE), toggle(SwitchStateNew(FALSE), 0)}
      ELSE {SwitchStateNew(FALSE)}

Init ==
    /\ overflow_checks \in BOOLEAN
    /\ probe = ProbeOff
    /\ app \in Apps
    /\ switch_state \in InitialSwitchStates(app)
    /\ pc = "idle"
    /\ RendererStart

\* --------------------------------------------------------------------------
\* Renderer::window_event: input events (the event loop is single-threaded,
\* so they arrive only between two handlers)
\* --------------------------------------------------------------------------
inputUnchanged ==
    <<overflow_checks, probe, app, switch_state, pc, frame, tree, metadatas,
      cursor_events, keyboard_events, handlers_pending, toggle_calls, stack, ret,
      commands, screen, trace, history>>

CursorMoved ==
    /\ pc = "idle"
    /\ \E position \in CursorPositions :
         cursor_state' = update_position(cursor_state, Some(position))
    /\ UNCHANGED <<keyboard_state, next_event_id, inputUnchanged>>

CursorLeft ==
    /\ pc = "idle"
    /\ cursor_state' = clear_cursor(cursor_state)
    /\ UNCHANGED <<keyboard_state, next_event_id, inputUnchanged>>

MouseInput ==
    /\ pc = "idle"
    /\ next_event_id <= MaxEvents
    /\ \E state \in {"Pressed", "Released"}, button \in {"Left", "Back"} :
         LET event_content == from_press_event(state, button) IN
         IF event_content = None
           THEN UNCHANGED <<cursor_state, next_event_id>>
           ELSE /\ cursor_state' = push_event(cursor_state,
                      [id |-> next_event_id, content |-> Unwrap(event_content)])
                /\ next_event_id' = next_event_id + 1
    /\ UNCHANGED <<keyboard_state, inputUnchanged>>

MouseWheel ==
    /\ pc = "idle"
    /\ next_event_id <= MaxEvents
    /\ cursor_state' = push_event(cursor_state,
           [id |-> next_event_id, content |-> <<"Scrolled">>])
    /\ next_event_id' = next_event_id + 1
    /\ UNCHANGED <<keyboard_state, inputUnchanged>>

Touch ==
    /\ pc = "idle"
    /\ next_event_id <= MaxEvents
    /\ \E phase \in {"Started", "Moved", "Ended"}, pos \in CursorPositions :
         IF phase = "Started"
           THEN /\ cursor_state' = push_event(update_position(cursor_state, Some(pos)),
                      [id |-> next_event_id, content |-> <<"Pressed", "Left">>])
                /\ next_event_id' = next_event_id + 1
         ELSE IF phase = "Moved"
           THEN /\ cursor_state' = update_position(cursor_state, Some(pos))
                /\ UNCHANGED next_event_id
         ELSE /\ cursor_state' = update_position(
                      push_event(cursor_state,
                          [id |-> next_event_id, content |-> <<"Released", "Left">>]),
                      None)
              /\ next_event_id' = next_event_id + 1
    /\ UNCHANGED <<keyboard_state, inputUnchanged>>

KeyboardInput ==
    /\ pc = "idle"
    /\ next_event_id <= MaxEvents
    /\ keyboard_state' = push_event(keyboard_state,
           [id |-> next_event_id, content |-> <<"Key">>])
    /\ next_event_id' = next_event_id + 1
    /\ UNCHANGED <<cursor_state, inputUnchanged>>

\* --------------------------------------------------------------------------
\* Renderer::window_event, RedrawRequested: one frame
\* --------------------------------------------------------------------------

\* (self.entry_point)(): the components add their nodes to the runtime's tree
Compose ==
    /\ pc = "idle"
    /\ frame < MaxFrames
    /\ LET added == ComposeTree(app, switch_state.checked, Len(tree)) IN
       /\ tree' = tree \o added
       /\ metadatas' = metadatas \o [i \in DOMAIN added |-> DefaultMetaData]
    /\ pc' = "composed"
    /\ Emit(<<Event("compose", 0)>>)
    /\ UNCHANGED <<overflow_checks, probe, app, switch_state, frame, cursor_state,
                   keyboard_state, next_event_id, cursor_events, keyboard_events,
                   handlers_pending, toggle_calls, stack, ret, commands, screen,
                   history>>

\* Nodes that registered a state handler, in tree order
StateHandlerNodes(t) ==
    SelectSeq([i \in DOMAIN t |-> i], LAMBDA i : t[i].component.kind = "switch")

\* A plausible slip: the queues are read but not drained.
TakeEventsPeeking ==
    /\ pc = "composed"
    /\ cursor_events' = cursor_state.events
    /\ keyboard_events' = keyboard_state.events
    /\ history' = Append(history, [cursor_position |-> cursor_state.position,
                                   cursor_events |-> cursor_state.events,
                                   keyboard_events |-> keyboard_state.events,
                                   state |-> switch_state])
    /\ handlers_pending' = StateHandlerNodes(tree)
    /\ toggle_calls' = <<>>
    /\ pc' = "dispatch"
    /\ UNCHANGED <<overflow_checks, probe, app, switch_state, frame, next_event_id,
                   cursor_state, keyboard_state, tree, metadatas, stack, ret,
                   commands, screen, trace>>

\* cursor_state.take_events(), keyboard_state.take_events(), and the call of
\* component_tree.compute with them
TakeEvents ==
    /\ pc = "composed"
    /\ LET c == take_events(cursor_state)
           k == take_events(keyboard_state)
       IN /\ cursor_events' = c.taken
          /\ cursor_state' = c.rest
          /\ keyboard_events' = k.taken
          /\ keyboard_state' = k.rest
          /\ history' = Append(history, [cursor_position |-> cursor_state.position,
                                         cursor_events |-> c.taken,
                                         keyboard_events |-> k.taken,
                                         state |-> switch_state])
    /\ handlers_pending' = StateHandlerNodes(tree)
    /\ toggle_calls' = <<>>
    /\ pc' = "dispatch"
    /\ UNCHANGED <<overflow_checks, probe, app, switch_state, frame, next_event_id,
                   tree, metadatas, stack, ret, commands, screen, trace>>

\* The animation fractions (elapsed / ANIMATION_DURATION).min(1.0), in percent
AnimationFractions == {50, 100}

\* A plausible slip: the handler counts a press only while the cursor is
\* inside the window.
StateHandlerHitTesting ==
    /\ pc = "dispatch"
    /\ handlers_pending # <<>>
    /\ LET n == Head(handlers_pending)
           checked == tree[n].component.checked
           clicks == Cardinality({i \in DOMAIN cursor_events :
                                     /\ cursor_events[i].content = <<"Pressed", "Left">>
                                     /\ IsSome(cursor_state.position)})
       IN \E fraction \in AnimationFractions :
            LET animated ==
                  IF IsSome(switch_state.last_toggle_time)
                    THEN [switch_state EXCEPT !.progress =
                            IF switch_state.checked THEN fraction ELSE 100 - fraction]
                    ELSE switch_state
            IN /\ IF clicks > 0
                    THEN /\ toggle_calls' = Append(toggle_calls, ~checked)
                         /\ switch_state' = toggle(animated, frame)
                    ELSE /\ UNCHANGED toggle_calls
                         /\ switch_state' = animated
               /\ Emit(<<[ev |-> "dispatch", node |-> n, frame |-> frame,
                           cursor_events |-> cursor_events,
                           keyboard_events |-> keyboard_events,
                           elapsed |-> IF IsSome(switch_state.last_toggle_time)
                                         THEN Some(fraction) ELSE None]>>)
    /\ handlers_pending' = Tail(handlers_pending)
    /\ UNCHANGED <<overflow_checks, probe, app, pc, frame, cursor_state,
                   keyboard_state, next_event_id, tree, metadatas, cursor_events,
                   keyboard_events, stack, ret, commands, screen, history>>

\* A plausible slip: the handler reports every left press, not only that
\* there was one.
StateHandlerPerClick ==
    /\ pc = "dispatch"
    /\ handlers_pending # <<>>
    /\ LET n == Head(handlers_pending)
           checked == tree[n].component.checked
           clicks == Cardinality({i \in DOMAIN cursor_events :
                                     cursor_events[i].content = <<"Pressed", "Left">>})
       IN \E fraction \in AnimationFractions :
            LET animated ==
                  IF IsSome(switch_state.last_toggle_time)
                    THEN [switch_state EXCEPT !.progress =
                            IF switch_state.checked THEN fraction ELSE 100 - fraction]
                    ELSE switch_state
            IN /\ toggle_calls' = toggle_calls \o [i \in 1..clicks |-> ~checked]
               /\ switch_state' = IF clicks = 1 THEN toggle(animated, frame)
                                  ELSE IF clicks > 1
                                    THEN toggle(toggle(animated, frame), frame)
                                  ELSE animated
               /\ Emit(<<[ev |-> "dispatch", node |-> n, frame |-> frame,
                           cursor_events |-> cursor_events,
                           keyboard_events |-> keyboard_events,
                           elapsed |-> IF IsSome(switch_state.last_toggle_time)
                                         THEN Some(fraction) ELSE None]>>)
    /\ handlers_pending' = Tail(handlers_pending)
    /\ UNCHANGED <<overflow_checks, probe, app, pc, frame, cursor_state,
                   keyboard_state, next_event_id, tree, metadatas, cursor_events,
                   keyboard_events, stack, ret, commands, screen, history>>

\* A plausible slip: the handler adds the animation fraction to the progress
\* instead of setting the progress from it.
StateHandlerAccumulating ==
    /\ pc = "dispatch"
    /\ handlers_pending # <<>>
    /\ LET n == Head(handlers_pending)
           checked == tree[n].component.checked
           clicks == Cardinality({i \in DOMAIN cursor_events :
                                     cursor_events[i].content = <<"Pressed", "Left">>})
       IN \E fraction \in AnimationFractions :
            LET animated ==
                  IF IsSome(switch_state.last_toggle_time)
                    THEN [switch_state EXCEPT !.progress =
                            IF switch_state.checked THEN PxMin(@ + fraction, 100)
                            ELSE PxMax(@ - fraction, 0)]
                    ELSE switch_state
            IN /\ IF clicks > 0
                    THEN /\ toggle_calls' = Append(toggle_calls, ~checked)
                         /\ switch_state' = toggle(animated, frame)
                    ELSE /\ UNCHANGED toggle_calls
                         /\ switch_state' = animated
               /\ Emit(<<[ev |-> "dispatch", node |-> n, frame |-> frame,
                           cursor_events |-> cursor_events,
                           keyboard_events |-> keyboard_events,
                           elapsed |-> IF IsSome(switch_state.last_toggle_time)
                                         THEN Some(fraction) ELSE None]>>)
    /\ handlers_pending' = Tail(handlers_pending)
    /\ UNCHANGED <<overflow_checks, probe, app, pc, frame, cursor_state,
                   keyboard_state, next_event_id, tree, metadatas, cursor_events,
                   keyboard_events, stack, ret, commands, screen, history>>

\* switch: the state handler.  on_toggle is the application's callback; the
\* application toggles its SwitchState in it.
StateHandler ==
    /\ pc = "dispatch"
    /\ handlers_pending # <<>>
    /\ LET n == Head(handlers_pending)
           checked == tree[n].component.checked
           clicks == Cardinality({i \in DOMAIN cursor_events :
                                     cursor_events[i].content = <<"Pressed", "Left">>})
       IN \E fraction \in AnimationFractions :
            LET animated ==
                  IF IsSome(switch_state.last_toggle_time)
                    THEN [switch_state EXCEPT !.progress =
                            IF switch_state.checked THEN fraction ELSE 100 - fraction]
                    ELSE switch_state
            IN /\ IF clicks > 0
                    THEN /\ toggle_calls' = Append(toggle_calls, ~checked)
                         /\ switch_state' = toggle(animated, frame)
                    ELSE /\ UNCHANGED toggle_calls
                         /\ switch_state' = animated
               /\ Emit(<<[ev |-> "dispatch", node |-> n, frame |-> frame,
                           cursor_events |-> cursor_events,
                           keyboard_events |-> keyboard_events,
                           elapsed |-> IF IsSome(switch_state.last_toggle_time)
                                         THEN Some(fraction) ELSE None]>>)
    /\ handlers_pending' = Tail(handlers_pending)
    /\ UNCHANGED <<overflow_checks, probe, app, pc, frame, cursor_state,
                   keyboard_state, next_event_id, tree, metadatas, cursor_events,
                   keyboard_events, stack, ret, commands, screen, history>>

\* --------------------------------------------------------------------------
\* compute: measurement.  measure_node calls a node's measure closure, which
\* calls measure_node for the children it wants sized.
\* --------------------------------------------------------------------------
measureUnchanged ==
    <<overflow_checks, probe, app, switch_state, frame, cursor_state,
      keyboard_state, next_event_id, tree, cursor_events, keyboard_events,
      handlers_pending, toggle_calls, commands, screen, history>>

Top == stack[Len(stack)]

\* measure_node(child, constraint, ..) is called by the closure on top
Call(child, constraint) ==
    /\ stack' = Append([stack EXCEPT ![Len(stack)].stage = "await"],
                       [node |-> child, constraint |-> constraint, stage |-> "enter"])
    /\ ret' = NoRet
    /\ Emit(<<[ev |-> "measure_start", node |-> child, frame |-> frame,
                constraint |-> constraint]>>)
    /\ UNCHANGED <<pc, metadatas, measureUnchanged>>

\* The closure of node n returns result; measure_node records a computed size
Return(n, result, md, events) ==
    /\ stack' = SubSeq(stack, 1, Len(stack) - 1)
    /\ ret' = result
    /\ metadatas' = IF result.ok
                      THEN [md EXCEPT ![n].computed_data = Some(result.size)]
                      ELSE md
    /\ Emit(events \o <<[ev |-> "measure_end", node |-> n, frame |-> frame,
                          result |-> result]>>)
    /\ UNCHANGED <<pc, measureUnchanged>>

\* An arithmetic overflow in a build with overflow checks aborts the thread
Panic ==
    /\ pc' = "panicked"
    /\ UNCHANGED <<stack, ret, metadatas, trace, measureUnchanged>>

\* A plausible slip: a position once recorded is kept.
place_node_first_write_wins(child, position, md) ==
    IF child \in DOMAIN md /\ md[child].rel_position = None
      THEN [md EXCEPT ![child].rel_position = Some(position)]
      ELSE md

\* place_node: record the position of a child relative to its parent
place_node(child, position, md) ==
    IF child \in DOMAIN md THEN [md EXCEPT ![child].rel_position = Some(position)] ELSE md

\* The record of a place_node call in the trace
PlaceEvent(child, position) ==
    [ev |-> "place", node |-> child, frame |-> frame, position |-> position]

\* A plausible slip: measurement starts without waiting for the state
\* handlers.
MeasureRootSkippingDispatch ==
    /\ pc = "dispatch"
    /\ LET screen_constraint == Constraint(Fixed(screen_size[1]), Fixed(screen_size[2])) IN
       /\ stack' = <<[node |-> 1, constraint |-> screen_constraint, stage |-> "enter"]>>
       /\ Emit(<<[ev |-> "measure_start", node |-> 1, frame |-> frame,
                   constraint |-> screen_constraint]>>)
    /\ ret' = NoRet
    /\ pc' = "measure"
    /\ UNCHANGED <<metadatas, measureUnchanged>>

\* compute measures the root under the screen size
MeasureRoot ==
    /\ pc = "dispatch"
    /\ handlers_pending = <<>>
    /\ LET screen_constraint == Constraint(Fixed(screen_size[1]), Fixed(screen_size[2])) IN
       /\ stack' = <<[node |-> 1, constraint |-> screen_constraint, stage |-> "enter"]>>
       /\ Emit(<<[ev |-> "measure_start", node |-> 1, frame |-> frame,
                   constraint |-> screen_constraint]>>)
    /\ ret' = NoRet
    /\ pc' = "measure"
    /\ UNCHANGED <<metadatas, measureUnchanged>>

\* surface.rs steps 1-3 on both axes
surface_effective(a, c) ==
    Constraint(effective_surface_dim(a.width, c.width),
               effective_surface_dim(a.height, c.height))

surface_child_constraint(a, c) ==
    LET p2 == PxMul2(a.padding)
        eff == surface_effective(a, c)
    IN Constraint(child_constraint_dim(eff.width, c.width, p2),
                  child_constraint_dim(eff.height, c.height, p2))

surface_enter_overflows(a, c) ==
    LET p2 == PxMul2(a.padding)
        eff == surface_effective(a, c)
    IN \/ Mul2Overflows(a.padding)
       \/ child_constraint_overflows(eff.width, c.width, p2)
       \/ child_constraint_overflows(eff.height, c.height, p2)

\* surface.rs step 5 on both axes
surface_final_size(a, c, child_measured_size) ==
    LET p2 == PxMul2(a.padding)
        eff == surface_effective(a, c)
    IN ComputedData(final_surface_dim(eff.width, child_measured_size.width, p2),
                    final_surface_dim(eff.height, child_measured_size.height, p2))

surface_final_overflows(a, child_measured_size) ==
    LET p2 == PxMul2(a.padding) IN
    \/ AddOverflows(child_measured_size.width, p2)
    \/ AddOverflows(child_measured_size.height, p2)

\* surface.rs steps 5-6: final size, own drawable, Ok(ComputedData)
SurfaceFinish(n, c, child_measured_size, md, events) ==
    LET a == tree[n].component IN
    IF overflow_checks /\ surface_final_overflows(a, child_measured_size)
      THEN Panic
      ELSE Return(n, Ok(surface_final_size(a, c, child_measured_size)),
                  [md EXCEPT ![n].basic_drawable = Some("Rect")],
                  events \o <<Event("drawable", n)>>)

\* A plausible slip: the surface places its child before it measures it.
SurfaceEnterPlacingFirst ==
    /\ pc = "measure"
    /\ stack # <<>>
    /\ Top.stage = "enter"
    /\ tree[Top.node].component.kind = "surface"
    /\ LET n == Top.node
           c == Top.constraint
           a == tree[n].component
       IN IF overflow_checks /\ surface_enter_overflows(a, c)
            THEN Panic
          ELSE IF tree[n].children # <<>>
            THEN LET child_node_id == Head(tree[n].children)
                     constraint == merge(metadatas[child_node_id].constraint,
                                         surface_child_constraint(a, c))
                 IN /\ stack' = Append([stack EXCEPT ![Len(stack)].stage = "await"],
                                       [node |-> child_node_id, constraint |-> constraint,
                                        stage |-> "enter"])
                    /\ ret' = NoRet
                    /\ metadatas' = place_node(child_node_id,
                                               PxPosition(a.padding, a.padding), metadatas)
                    /\ Emit(<<[ev |-> "measure_start", node |-> child_node_id,
                                frame |-> frame, constraint |-> constraint]>>)
                    /\ UNCHANGED <<pc, measureUnchanged>>
          ELSE SurfaceFinish(n, c, ComputedData(0, 0), metadatas, <<>>)

\* surface: the measure closure up to the measurement of its first child
SurfaceEnter ==
    /\ pc = "measure"
    /\ stack # <<>>
    /\ Top.stage = "enter"
    /\ tree[Top.node].component.kind = "surface"
    /\ LET n == Top.node
           c == Top.constraint
           a == tree[n].component
       IN IF overflow_checks /\ surface_enter_overflows(a, c)
            THEN Panic
          ELSE IF tree[n].children # <<>>
            THEN LET child_node_id == Head(tree[n].children) IN
                 IF child_node_id \notin DOMAIN metadatas
                   THEN Return(n, Err("ChildMeasurementFailed", child_node_id),
                               metadatas, <<>>)
                   ELSE Call(child_node_id,
                             merge(metadatas[child_node_id].constraint,
                                   surface_child_constraint(a, c)))
          ELSE SurfaceFinish(n, c, ComputedData(0, 0), metadatas, <<>>)

\* A plausible slip: a failed child counts as a child of size zero.
SurfaceResumeSwallowing ==
    /\ pc = "measure"
    /\ stack # <<>>
    /\ Top.stage = "await"
    /\ ret # NoRet
    /\ tree[Top.node].component.kind = "surface"
    /\ LET n == Top.node
           a == tree[n].component
           child_node_id == Head(tree[n].children)
       IN IF ~ret.ok
            THEN SurfaceFinish(n, Top.constraint, ComputedData(0, 0), metadatas, <<>>)
            ELSE SurfaceFinish(n, Top.constraint, ret.size,
                     place_node(child_node_id, PxPosition(a.padding, a.padding), metadatas),
                     <<PlaceEvent(child_node_id, PxPosition(a.padding, a.padding))>>)

RECURSIVE place_each(_, _, _)
place_each(children, position, md) ==
    IF children = <<>> THEN md
    ELSE place_each(Tail(children), position, place_node(Head(children), position, md))

\* A plausible slip: the surface places all its children, not only the one
\* it measured.
SurfaceResumePlacingAll ==
    /\ pc = "measure"
    /\ stack # <<>>
    /\ Top.stage = "await"
    /\ ret # NoRet
    /\ tree[Top.node].component.kind = "surface"
    /\ LET n == Top.node
           a == tree[n].component
       IN IF ~ret.ok
            THEN Return(n, ret, metadatas, <<>>)
            ELSE SurfaceFinish(n, Top.constraint, ret.size,
                     place_each(tree[n].children, PxPosition(a.padding, a.padding), metadatas),
                     [i \in DOMAIN tree[n].children |->
                        PlaceEvent(tree[n].children[i], PxPosition(a.padding, a.padding))])

\* surface: the measure closure from the result of its child on
SurfaceResume ==
    /\ pc = "measure"
    /\ stack # <<>>
    /\ Top.stage = "await"
    /\ ret # NoRet
    /\ tree[Top.node].component.kind = "surface"
    /\ LET n == Top.node
           a == tree[n].component
           child_node_id == Head(tree[n].children)
       IN IF ~ret.ok
            THEN Return(n, ret, metadatas, <<>>)
            ELSE SurfaceFinish(n, Top.constraint, ret.size,
                     place_node(child_node_id, PxPosition(a.padding, a.padding), metadatas),
                     <<PlaceEvent(child_node_id, PxPosition(a.padding, a.padding))>>)

\* switch: the measure closure up to the measurement of its thumb
SwitchEnter ==
    /\ pc = "measure"
    /\ stack # <<>>
    /\ Top.stage = "enter"
    /\ tree[Top.node].component.kind = "switch"
    /\ Call(tree[Top.node].children[1], Constraint(WrapNone, WrapNone))

\* Integer division of Rust: towards zero
TruncDiv(a, b) == IF a >= 0 THEN a \div b ELSE -((-a) \div b)

\* switch: the position of the thumb, progress in percent
thumb_position(args, thumb_size, progress) ==
    LET start_x == args.thumb_padding
        end_x == PxSub(PxSub(args.width, thumb_size.width), args.thumb_padding)
        thumb_x == start_x + TruncDiv(WrappingSub(end_x, start_x) * progress, 100)
        thumb_y == TruncDiv(PxSub(args.height, thumb_size.height), 2)
    IN PxPosition(thumb_x, thumb_y)

\* switch: the measure closure from the result of its thumb on
SwitchResume ==
    /\ pc = "measure"
    /\ stack # <<>>
    /\ Top.stage = "await"
    /\ ret # NoRet
    /\ tree[Top.node].component.kind = "switch"
    /\ LET n == Top.node
           args == tree[n].component
           thumb_id == tree[n].children[1]
       IN IF ~ret.ok
            THEN Return(n, ret, metadatas, <<>>)
            ELSE Return(n, Ok(ComputedData(args.width, args.height)),
                     [place_node(thumb_id,
                                 thumb_position(args, ret.size, switch_state.progress),
                                 metadatas)
                        EXCEPT ![n].basic_drawable = Some("Track")],
                     <<PlaceEvent(thumb_id,
                                  thumb_position(args, ret.size, switch_state.progress)),
                       Event("drawable", n)>>)

\* The size a text lays out to under optional maxima
text_size(content, max) == IF IsSome(max) THEN PxMin(content, Unwrap(max)) ELSE content

\* text: the measure closure
TextMeasure ==
    /\ pc = "measure"
    /\ stack # <<>>
    /\ Top.stage = "enter"
    /\ tree[Top.node].component.kind = "text"
    /\ LET n == Top.node
           c == Top.constraint
           t == tree[n].component
       IN Return(n, Ok(ComputedData(text_size(t.w, ParentBound(c.width)),
                                    text_size(t.h, ParentBound(c.height)))),
                 [metadatas EXCEPT ![n].basic_drawable = Some("Text")],
                 <<Event("drawable", n)>>)

\* A measure closure that fails
FailingMeasure ==
    /\ pc = "measure"
    /\ stack # <<>>
    /\ Top.stage = "enter"
    /\ tree[Top.node].component.kind = "failing"
    /\ Return(Top.node, Err("MeasureFnFailed", Top.node), metadatas, <<>>)

\* A measure closure that succeeds in the first frame only
FailingLaterMeasure ==
    /\ pc = "measure"
    /\ stack # <<>>
    /\ Top.stage = "enter"
    /\ tree[Top.node].component.kind = "failing_later"
    /\ IF frame = 0
         THEN Return(Top.node, Ok(ComputedData(0, 0)), metadatas, <<>>)
         ELSE Return(Top.node, Err("MeasureFnFailed", Top.node), metadatas, <<>>)

\* The custom container: the measure closure up to the measurement of its
\* first child
CustomEnter ==
    /\ pc = "measure"
    /\ stack # <<>>
    /\ Top.stage = "enter"
    /\ tree[Top.node].component.kind = "custom"
    /\ Call(tree[Top.node].children[1], Constraint(WrapNone, WrapNone))

\* The identity a place call of node n names
PlaceTarget(n, call) ==
    IF call.target = "child" THEN tree[n].children[1] ELSE Len(tree) + 1

RECURSIVE apply_places(_, _, _)
\* The metadata table after the place calls of node n, made in order
apply_places(n, calls, md) ==
    IF calls = <<>> THEN md
    ELSE apply_places(n, Tail(calls),
                      place_node(PlaceTarget(n, Head(calls)), Head(calls).position, md))

\* The custom container: the measure closure from the result of its child
\* on.  Like surface and switch it goes on after each place_node call.
CustomResume ==
    /\ pc = "measure"
    /\ stack # <<>>
    /\ Top.stage = "await"
    /\ ret # NoRet
    /\ tree[Top.node].component.kind = "custom"
    /\ LET n == Top.node
           calls == tree[n].component.places
       IN IF ~ret.ok
            THEN Return(n, ret, metadatas, <<>>)
            ELSE Return(n, Ok(ret.size), apply_places(n, calls, metadatas),
                        LET written == SelectSeq(calls,
                                LAMBDA c : PlaceTarget(n, c) \in DOMAIN metadatas)
                        IN [i \in DOMAIN written |->
                              PlaceEvent(PlaceTarget(n, written[i]), written[i].position)])

\* --------------------------------------------------------------------------
\* compute: draw-command extraction
\* --------------------------------------------------------------------------
RECURSIVE draw_commands(_, _, _, _)
RECURSIVE draw_commands_of(_, _, _, _)
RECURSIVE draw_commands_children_first(_, _, _, _)
RECURSIVE draw_commands_of_relative(_, _, _, _)

\* A plausible slip: a node's own command is emitted after its subtree's.
draw_commands_children_first(t, md, n, origin) ==
    draw_commands_of(t, md, t[n].children, origin)
      \o (IF IsSome(md[n].basic_drawable)
            THEN <<[node |-> n, position |-> origin,
                    drawable |-> Unwrap(md[n].basic_drawable)]>>
            ELSE <<>>)

\* The commands of node n at absolute position origin, then its subtree's
draw_commands(t, md, n, origin) ==
    (IF IsSome(md[n].basic_drawable)
       THEN <<[node |-> n, position |-> origin, drawable |-> Unwrap(md[n].basic_drawable)]>>
       ELSE <<>>)
      \o draw_commands_of(t, md, t[n].children, origin)

\* A plausible slip: a child's position is taken as it is recorded, without
\* adding the position of its parent.
draw_commands_of_relative(t, md, cs, origin) ==
    IF cs = <<>> THEN <<>>
    ELSE LET child == Head(cs) IN
         (IF IsSome(md[child].rel_position) /\ IsSome(md[child].computed_data)
            THEN draw_commands(t, md, child, Unwrap(md[child].rel_position))
            ELSE <<>>)
           \o draw_commands_of_relative(t, md, Tail(cs), origin)

\* The commands of the placed children cs of a node at origin, in order
draw_commands_of(t, md, cs, origin) ==
    IF cs = <<>> THEN <<>>
    ELSE LET child == Head(cs) IN
         (IF IsSome(md[child].rel_position) /\ IsSome(md[child].computed_data)
            THEN draw_commands(t, md, child,
                     PxPosition(PxAdd(origin.x, Unwrap(md[child].rel_position).x),
                                PxAdd(origin.y, Unwrap(md[child].rel_position).y)))
            ELSE <<>>)
           \o draw_commands_of(t, md, Tail(cs), origin)

\* compute returns: the draw commands of a measured tree, none after a failure
ExtractDrawCommands ==
    /\ pc = "measure"
    /\ stack = <<>>
    /\ IF ret.ok
         THEN /\ commands' = draw_commands(tree, metadatas, 1, PxPosition(0, 0))
              /\ Emit(<<[ev |-> "extract", node |-> 0, frame |-> frame,
                          commands |-> draw_commands(tree, metadatas, 1, PxPosition(0, 0))]>>)
         ELSE /\ commands' = <<>>
              /\ Emit(<<[ev |-> "failed", node |-> ret.error.node, frame |-> frame,
                          commands |-> <<>>]>>)
    /\ pc' = "computed"
    /\ UNCHANGED <<overflow_checks, probe, app, switch_state, frame, cursor_state,
                   keyboard_state, next_event_id, tree, metadatas, cursor_events,
                   keyboard_events, handlers_pending, toggle_calls, stack, ret,
                   screen, history>>

\* A plausible slip: the tree is cleared only after a successful compute.
ClearOnSuccessOnly ==
    /\ pc = "computed"
    /\ IF ret.ok
         THEN tree' = <<>> /\ metadatas' = <<>>
         ELSE UNCHANGED <<tree, metadatas>>
    /\ pc' = "cleared"
    /\ Emit(<<Event("clear", 0)>>)
    /\ UNCHANGED <<overflow_checks, probe, app, switch_state, frame, cursor_state,
                   keyboard_state, next_event_id, cursor_events, keyboard_events,
                   handlers_pending, toggle_calls, stack, ret, commands, screen,
                   history>>

\* component_tree.clear()
Clear ==
    /\ pc = "computed"
    /\ tree' = <<>>
    /\ metadatas' = <<>>
    /\ pc' = "cleared"
    /\ Emit(<<Event("clear", 0)>>)
    /\ UNCHANGED <<overflow_checks, probe, app, switch_state, frame, cursor_state,
                   keyboard_state, next_event_id, cursor_events, keyboard_events,
                   handlers_pending, toggle_calls, stack, ret, commands, screen,
                   history>>

\* A plausible slip: the commands are rendered and the next redraw requested
\* without clearing the tree.
RenderSkippingClear ==
    /\ pc \in {"computed", "cleared"}
    /\ screen' = commands
    /\ frame' = frame + 1
    /\ pc' = "idle"
    /\ Emit(<<Event("render", 0)>>)
    /\ UNCHANGED <<overflow_checks, probe, app, switch_state, cursor_state,
                   keyboard_state, next_event_id, tree, metadatas, cursor_events,
                   keyboard_events, handlers_pending, toggle_calls, stack, ret,
                   commands, history>>

\* app.render(commands), then request_redraw
Render ==
    /\ pc = "cleared"
    /\ screen' = commands
    /\ frame' = frame + 1
    /\ pc' = "idle"
    /\ Emit(<<Event("render", 0)>>)
    /\ UNCHANGED <<overflow_checks, probe, app, switch_state, cursor_state,
                   keyboard_state, next_event_id, tree, metadatas, cursor_events,
                   keyboard_events, handlers_pending, toggle_calls, stack, ret,
                   commands, history>>

Next ==
    \/ CursorMoved \/ CursorLeft \/ MouseInput \/ MouseWheel \/ Touch \/ KeyboardInput
    \/ Compose \/ TakeEvents \/ StateHandler \/ MeasureRoot
    \/ SurfaceEnter \/ SurfaceResume \/ SwitchEnter \/ SwitchResume
    \/ TextMeasure \/ FailingMeasure \/ FailingLaterMeasure
    \/ CustomEnter \/ CustomResume
    \/ ExtractDrawCommands \/ Clear \/ Render

Spec == Init /\ [][Next]_vars

\* One surface axis about to be measured: its args, the dimension its parent
\* offers and the intrinsic dimension of its first child.
ProbeInit ==
    /\ overflow_checks \in BOOLEAN
    /\ \E w \in {None} \cup {Some(d) : d \in DimValues}, p \in DimValues,
          pad \in PadValues, ci \in ChildIntrinsicValues :
         probe = [ProbeOff EXCEPT !.stage = "input", !.width_arg = w, !.parent = p,
                                  !.padding = pad, !.child_intrinsic = ci]
    /\ app = [chain |-> <<>>, extra |-> <<>>]
    /\ switch_state = SwitchStateNew(FALSE)
    /\ pc = "off"
    /\ RendererStart

\* surface.rs steps 1-2: padding_2_px, intrinsic constraint, merge
ProbeMerge ==
    /\ probe.stage = "input"
    /\ IF overflow_checks /\ Mul2Overflows(probe.padding)
         THEN probe' = [probe EXCEPT !.stage = "panicked"]
         ELSE probe' = [probe EXCEPT
                 !.stage = "merged",
                 !.effective = effective_surface_dim(probe.width_arg, probe.parent)]
    /\ UNCHANGED <<overflow_checks, rendererVars>>

\* surface.rs step 3: the constraint for the child
ProbeChildConstraint ==
    /\ probe.stage = "merged"
    /\ LET p2 == PxMul2(probe.padding) IN
       IF overflow_checks /\ child_constraint_overflows(probe.effective, probe.parent, p2)
         THEN probe' = [probe EXCEPT !.stage = "panicked"]
         ELSE probe' = [probe EXCEPT
                 !.stage = "offered",
                 !.child_constraint = child_constraint_dim(probe.effective, probe.parent, p2)]
    /\ UNCHANGED <<overflow_checks, rendererVars>>

\* surface.rs step 4: the first child, if there is one, is measured under
\* the merged constraint and returns some size; without a child the size
\* stays ComputedData::ZERO
ProbeMeasureChild ==
    /\ probe.stage = "offered"
    /\ \/ \E size \in LenValues :
            probe' = [probe EXCEPT
                !.stage = "measured",
                !.final_child_constraint =
                    final_child_constraint_dim(probe.child_intrinsic, probe.child_constraint),
                !.child_size = size]
       \/ probe' = [probe EXCEPT !.stage = "measured", !.has_child = FALSE,
                                 !.child_size = 0]
    /\ UNCHANGED <<overflow_checks, rendererVars>>

\* surface.rs step 5: the final dimension of the surface
ProbeFinal ==
    /\ probe.stage = "measured"
    /\ LET p2 == PxMul2(probe.padding) IN
       IF overflow_checks /\ AddOverflows(probe.child_size, p2)
         THEN probe' = [probe EXCEPT !.stage = "panicked"]
         ELSE probe' = [probe EXCEPT
                 !.stage = "done",
                 !.final = final_surface_dim(probe.effective, probe.child_size, p2)]
    /\ UNCHANGED <<overflow_checks, rendererVars>>

ProbeNext == ProbeMerge \/ ProbeChildConstraint \/ ProbeMeasureChild \/ ProbeFinal

SpecAlgebra == ProbeInit /\ [][ProbeNext]_vars

\* --------------------------------------------------------------------------
\* Claims about the constraint algebra (checked under SpecAlgebra)
\* --------------------------------------------------------------------------
ProbeMerged == probe.stage \in {"merged", "offered", "measured", "done"}

ProbeOwn == surface_intrinsic_dim(probe.width_arg)

\* C1: an own Fixed(a) merged with any parent-offered dimension stays
\* Fixed(a); the parent's bounds never change it.
C1_FixedIgnoresParent ==
    (ProbeMerged /\ ProbeOwn.kind = "Fixed") => probe.effective = Fixed(ProbeOwn.v)

C1_Witness ==
    /\ probe.stage = "merged"
    /\ probe.width_arg = Some(Fixed(50))
    /\ probe.parent = Fixed(25)
    /\ probe.effective = Fixed(50)

\* The upper bounds present in an own Wrap/Fill and in the parent's offer.
BoundsOf(own, parent_dim) ==
    {v \in LenValues : own.max = Some(v)}
      \cup {v \in LenValues : parent_dim.kind = "Fixed" /\ parent_dim.v = v}
      \cup {v \in LenValues : parent_dim.kind # "Fixed" /\ parent_dim.max = Some(v)}

Least(S) == CHOOSE m \in S : \A x \in S : m <= x

\* C2: an own Wrap{min,max} merged with any parent P is Wrap with the own
\* min and with max the least of the own max and P's bound, absent when
\* neither is present.
C2_WrapTakesTighterMax ==
    (ProbeMerged /\ ProbeOwn.kind = "Wrap") =>
      /\ probe.effective.kind = "Wrap"
      /\ probe.effective.min = ProbeOwn.min
      /\ LET B == BoundsOf(ProbeOwn, probe.parent) IN
         probe.effective.max = IF B = {} THEN None ELSE Some(Least(B))

C2_Witness ==
    /\ probe.stage = "merged"
    /\ probe.width_arg = Some(Wrap(Some(25), Some(50)))
    /\ probe.parent = Fill(None, Some(25))
    /\ probe.effective = Wrap(Some(25), Some(25))

SubTwicePaddingFloored(w, p) == IF w - p <= p THEN 0 ELSE (w - p) - p

\* C5: a surface with padding p whose effective dimension is Fixed(w)
\* offers its child Fixed(max(w - 2p, 0)), for every w and p.
C5_ChildFixedIsFlooredDifference ==
    (probe.stage \in {"offered", "measured", "done"} /\ probe.effective.kind = "Fixed") =>
      probe.child_constraint =
        Fixed(SubTwicePaddingFloored(probe.effective.v, probe.padding))

\* The part of C5 that holds for every w and p: the offered length is
\* never negative.
C5_ChildLengthNeverNegative ==
    (probe.stage \in {"offered", "measured", "done"}) =>
      /\ probe.child_constraint.kind = "Fixed" => probe.child_constraint.v >= 0
      /\ probe.child_constraint.kind = "Wrap" =>
           /\ IsSome(probe.child_constraint.min) => Unwrap(probe.child_constraint.min) >= 0
           /\ IsSome(probe.child_constraint.max) => Unwrap(probe.child_constraint.max) >= 0
\* --------------------------------------------------------------------------
\* Claims about a frame (checked under Spec)
\* --------------------------------------------------------------------------

\* Node n is the showcase's demo container (Fixed(400) x Fixed(70), padding
\* 10) with a first child whose own constraint is Wrap{None,None} on both axes.
IsDemo(n) ==
    /\ n \in DOMAIN tree
    /\ tree[n].component = DemoSurface
    /\ tree[n].children # <<>>
    /\ metadatas[Head(tree[n].children)].constraint = Constraint(WrapNone, WrapNone)

\* Event i of the trace is the start of the measurement of the demo
\* container's child in the frame under way.
IsDemoChildStart(i) ==
    /\ trace[i].ev = "measure_start"
    /\ trace[i].frame = frame
    /\ trace[i].node \in DOMAIN tree
    /\ tree[trace[i].node].parent # 0
    /\ IsDemo(tree[trace[i].node].parent)
    /\ trace[i].node = Head(tree[tree[trace[i].node].parent].children)

DemoSizeExact ==
    \A n \in DOMAIN tree :
      (IsDemo(n) /\ IsSome(metadatas[n].computed_data)) =>
        metadatas[n].computed_data = Some(ComputedData(400, 70))

\* C6 as stated: the child's effective constraint is Fixed, at most 380 x 50,
\* and the container's final size is exactly 400 x 70.
C6_ChildEffectiveIsFixed ==
    /\ \A i \in DOMAIN trace :
         IsDemoChildStart(i) =>
           /\ trace[i].constraint.width.kind = "Fixed"
           /\ trace[i].constraint.width.v <= 380
           /\ trace[i].constraint.height.kind = "Fixed"
           /\ trace[i].constraint.height.v <= 50
    /\ DemoSizeExact

\* C6 as amended: the container offers Fixed(380) x Fixed(50), and the
\* child's effective constraint, its own Wrap merged with that offer, is
\* Wrap{None, 380} x Wrap{None, 50}; the container's final size is exactly
\* 400 x 70 whatever its parent offers.
C6_ChildEffectiveIsBoundedWrap ==
    /\ \A i \in DOMAIN trace :
         IsDemoChildStart(i) =>
           trace[i].constraint = Constraint(Wrap(None, Some(380)), Wrap(None, Some(50)))
    /\ DemoSizeExact

C6_Witness ==
    /\ pc = "computed"
    /\ IsDemo(2)
    /\ tree[1].component.width = Some(Fill(None, None))
    /\ metadatas[2].computed_data = Some(ComputedData(400, 70))
    /\ metadatas[3].computed_data = Some(ComputedData(380, 20))

\* The identities of the events passed to compute in one frame
EventIds(h) ==
    {h.cursor_events[i].id : i \in DOMAIN h.cursor_events}
      \cup {h.keyboard_events[i].id : i \in DOMAIN h.keyboard_events}

\* C7: an event passed to compute in one frame is in no later frame's event
\* sequences.
C7_DrainSemantics ==
    \A i \in DOMAIN history : \A j \in DOMAIN history :
      i < j => EventIds(history[i]) \cap EventIds(history[j]) = {}

C7_Witness ==
    /\ Len(history) >= 2
    /\ history[1].cursor_events # <<>>
    /\ EventIds(history[2]) # {}

\* The place of an event in the order of the phases, placement counted as a
\* phase of its own after measurement.
PhaseRankSeparate(e) ==
    CASE e.ev = "compose" -> 1
      [] e.ev = "dispatch" -> 2
      [] e.ev \in {"measure_start", "measure_end", "drawable"} -> 3
      [] e.ev = "place" -> 4
      [] e.ev \in {"extract", "failed"} -> 5
      [] e.ev = "clear" -> 6
      [] e.ev = "render" -> 7

\* The same, placement counted as part of measurement.
PhaseRankNested(e) == IF e.ev = "place" THEN 3 ELSE PhaseRankSeparate(e)

\* Frames follow each other and inside a frame the events follow the ranks.
InPhaseOrder(Rank(_)) ==
    \A i \in DOMAIN trace : \A j \in DOMAIN trace :
      i < j =>
        \/ trace[i].frame < trace[j].frame
        \/ trace[i].frame = trace[j].frame /\ Rank(trace[i]) <= Rank(trace[j])

HasEvent(f, evs) == \E i \in DOMAIN trace : trace[i].frame = f /\ trace[i].ev \in evs

\* No phase is skipped: a frame renders only after its clear, clears only
\* after compute returned, and starts only after the clear and the render of
\* the frame before.
NoPhaseSkipped ==
    \A i \in DOMAIN trace :
      LET f == trace[i].frame IN
      /\ HasEvent(f, {"compose"})
      /\ trace[i].ev = "render" => HasEvent(f, {"clear"})
      /\ trace[i].ev = "clear" => HasEvent(f, {"extract", "failed"})
      /\ trace[i].ev \in {"extract", "failed"} => HasEvent(f, {"measure_end"})
      /\ f > 0 => HasEvent(f - 1, {"clear"}) /\ HasEvent(f - 1, {"render"})

\* A node is placed only after its own measurement returned a size, and
\* before the measurement of its parent returns.
PlacedInsideParentMeasure ==
    \A i \in DOMAIN trace :
      trace[i].ev = "place" =>
        /\ \E j \in 1..(i - 1) :
             /\ trace[j].ev = "measure_end"
             /\ trace[j].frame = trace[i].frame
             /\ trace[j].node = trace[i].node
             /\ trace[j].result.ok
        /\ \E j \in 1..(i - 1) :
             /\ trace[j].ev = "measure_start"
             /\ trace[j].frame = trace[i].frame
             /\ trace[j].node # trace[i].node
             /\ \A k \in (j + 1)..i :
                  ~(trace[k].ev = "measure_end" /\ trace[k].node = trace[j].node)

\* C8 as stated: in every frame composition, dispatch, measurement,
\* placement, extraction and clear are consecutive phases in this order, a
\* frame starts only after the clear of the frame before, and rendering
\* follows extraction.
C8_PhasesSeparate == InPhaseOrder(PhaseRankSeparate) /\ NoPhaseSkipped

\* C8 as amended: the order is composition, dispatch, measurement,
\* extraction, clear, render, and placement is part of measurement: each
\* node is placed inside its parent's measure closure, after its own
\* measurement returned a size.
C8_PhasesWithNestedPlacement ==
    InPhaseOrder(PhaseRankNested) /\ NoPhaseSkipped /\ PlacedInsideParentMeasure

C8_Witness ==
    /\ HasEvent(0, {"dispatch"})
    /\ HasEvent(0, {"place"})
    /\ HasEvent(0, {"extract"})
    /\ HasEvent(1, {"measure_start"})

\* C9: the tree and the metadata table are empty whenever a composition
\* pass begins, and after it they hold this frame's nodes only, with fresh
\* metadata, also when the frame before failed to measure.
C9_TreeEmptyAtComposition ==
    /\ pc = "idle" => (tree = <<>> /\ metadatas = <<>>)
    /\ pc = "composed" =>
         /\ tree = ComposeTree(app, switch_state.checked, 0)
         /\ \A n \in DOMAIN metadatas : metadatas[n] = DefaultMetaData
         /\ DOMAIN metadatas = DOMAIN tree

C9_Witness ==
    /\ pc = "composed"
    /\ frame = 1
    /\ HasEvent(0, {"failed"})
    /\ Len(tree) = 3

\* The measure_end events of the frame under way whose result is a failure
FailedEnds ==
    {i \in DOMAIN trace :
        /\ trace[i].ev = "measure_end"
        /\ trace[i].frame = frame
        /\ tree # <<>>
        /\ ~trace[i].result.ok}

\* C10: when the measurement of a child fails, its parent (surface, switch)
\* returns that failure: it does not place the child, records no drawable of
\* its own and does nothing more, and the failure compute ends with is the
\* first failure of the frame.
C10_ChildFailurePropagates ==
    /\ \A i \in FailedEnds :
         LET n == trace[i].node
             p == tree[n].parent
         IN /\ metadatas[n].rel_position = None
            /\ p # 0 =>
                 /\ metadatas[p].basic_drawable = None
                 /\ metadatas[p].computed_data = None
                 /\ i < Len(trace) =>
                      /\ trace[i + 1].ev = "measure_end"
                      /\ trace[i + 1].node = p
                      /\ trace[i + 1].result = trace[i].result
    /\ (pc = "computed" /\ FailedEnds # {}) =>
         /\ ~ret.ok
         /\ ret = trace[CHOOSE i \in FailedEnds : \A j \in FailedEnds : i <= j].result
         /\ commands = <<>>

C10_Witness ==
    /\ pc = "computed"
    /\ Len(tree) = 3
    /\ tree[3].component.kind = "failing"
    /\ ret = Err("MeasureFnFailed", 3)
    /\ Cardinality(FailedEnds) = 3

\* --------------------------------------------------------------------------
\* Claims about failure, dispatch, placement and extraction (checked under
\* Spec)
\* --------------------------------------------------------------------------

\* C11: when the measurement of a frame ends in a failure, nothing is handed
\* to the renderer for that frame (app.render is not called) and what the
\* frame before presented stays on screen.
C11_FailedFrameKeepsScreen ==
    [][(pc = "cleared" /\ ~ret.ok) => (screen' = screen /\ trace' = trace)]_vars

\* The part of C11 that holds: a frame measures its root once, also when
\* that measurement fails.
C11_NoRetryWithinFrame ==
    \A i \in DOMAIN trace : \A j \in DOMAIN trace :
      (/\ trace[i].ev = "measure_start" /\ trace[j].ev = "measure_start"
       /\ trace[i].frame = trace[j].frame /\ trace[i].node = trace[j].node) => i = j

\* A parent of the tree has made a place call naming an identity that is
\* not among its children and has no metadata entry.
Misplaced ==
    \E n \in DOMAIN tree :
      /\ tree[n].component.kind = "custom"
      /\ \E i \in DOMAIN tree[n].component.places :
           /\ tree[n].component.places[i].target = "absent"
           /\ PlaceTarget(n, tree[n].component.places[i]) \notin DOMAIN metadatas
      /\ IsSome(metadatas[n].computed_data)

\* C12: a place call naming an identity that is not a declared child makes
\* the frame's measurement fail.
C12_MisplacementFails == (pc = "computed" /\ Misplaced) => ~ret.ok

\* The nodes of the tree that registered a state handler
HandlerNodes == {n \in DOMAIN tree : tree[n].component.kind = "switch"}

\* The calls of node n's state handler in the frame under way
DispatchesOf(n) ==
    {i \in DOMAIN trace :
        trace[i].ev = "dispatch" /\ trace[i].frame = frame /\ trace[i].node = n}

RECURSIVE Ancestors(_)
\* The proper ancestors of node n
Ancestors(n) ==
    IF tree[n].parent = 0 THEN {}
    ELSE {tree[n].parent} \cup Ancestors(tree[n].parent)

\* Node n and the nodes below it
Subtree(n) == {m \in DOMAIN tree : m = n \/ n \in Ancestors(m)}

\* C13: in every frame the state handler of each node that registered one
\* is called exactly once, before the measurement of the node or of any
\* node of its subtree starts.
C13_HandlersOnceBeforeMeasurement ==
    \A n \in HandlerNodes :
      /\ Cardinality(DispatchesOf(n)) <= 1
      /\ pc \in {"measure", "computed"} => Cardinality(DispatchesOf(n)) = 1
      /\ \A i \in DispatchesOf(n) : \A j \in DOMAIN trace :
           (/\ trace[j].ev = "measure_start"
            /\ trace[j].frame = frame
            /\ trace[j].node \in Subtree(n)) => i < j

C13_Witness ==
    /\ pc = "computed"
    /\ frame = 1
    /\ Cardinality(HandlerNodes) = 2
    /\ \E n \in HandlerNodes : \E j \in DOMAIN trace :
         trace[j].ev = "measure_start" /\ trace[j].frame = 1 /\ trace[j].node = n

\* The events of a sequence are in capture order
InCaptureOrder(events) ==
    \A i \in DOMAIN events : \A j \in DOMAIN events : i < j => events[i].id < events[j].id

HasLeftPress(events) ==
    \E i \in DOMAIN events : events[i].content = <<"Pressed", "Left">>

\* C14: every state handler called in a frame receives the whole cursor and
\* keyboard event sequences taken for the frame, in capture order and the
\* same for all handlers; no hit-testing is done, so every switch reports a
\* left press wherever the cursor is.
C14_HandlersReceiveAllEvents ==
    /\ \A i \in DOMAIN trace :
         trace[i].ev = "dispatch" =>
           /\ trace[i].cursor_events = history[trace[i].frame + 1].cursor_events
           /\ trace[i].keyboard_events = history[trace[i].frame + 1].keyboard_events
           /\ InCaptureOrder(trace[i].cursor_events)
           /\ InCaptureOrder(trace[i].keyboard_events)
    /\ (pc \in {"measure", "computed"} /\ tree # <<>>) =>
         Len(toggle_calls) = IF HasLeftPress(history[frame + 1].cursor_events)
                               THEN Cardinality(HandlerNodes) ELSE 0

C14_Witness ==
    /\ pc = "computed"
    /\ Cardinality(HandlerNodes) = 2
    /\ Len(history[frame + 1].cursor_events) = 2
    /\ HasLeftPress(history[frame + 1].cursor_events)
    /\ history[frame + 1].cursor_position = None
    /\ Len(toggle_calls) = 2

\* The place calls made for node n in the frame under way
PlacesOf(n) ==
    {i \in DOMAIN trace :
        trace[i].ev = "place" /\ trace[i].frame = frame /\ trace[i].node = n}

Greatest(S) == CHOOSE m \in S : \A x \in S : x <= m

\* The position recorded for a node is that of the last place call made for
\* it in the frame, and none when it was never placed.
LastWriteWins ==
    \A n \in DOMAIN tree :
      metadatas[n].rel_position =
        IF PlacesOf(n) = {} THEN None ELSE Some(trace[Greatest(PlacesOf(n))].position)

\* A step that places node n changes nothing of n's metadata but its
\* position.
PlaceTouchesOnlyPosition ==
    \A n \in DOMAIN tree :
      (tree' = tree /\ PlacesOf(n)' # PlacesOf(n)) =>
        /\ metadatas'[n].constraint = metadatas[n].constraint
        /\ metadatas'[n].computed_data = metadatas[n].computed_data
        /\ metadatas'[n].basic_drawable = metadatas[n].basic_drawable

\* C15: placement is last-write-wins: after any place calls for a child in
\* one frame its recorded position is that of the last call, and a place
\* call leaves the child's size, constraint and drawable as they were.
C15_PlacementLastWriteWins == [][LastWriteWins' /\ PlaceTouchesOnlyPosition]_vars

C15_Witness ==
    /\ pc = "computed"
    /\ Len(tree) = 2
    /\ Cardinality(PlacesOf(2)) = 2
    /\ metadatas[2].rel_position = Some(PxPosition(3, 4))
    /\ metadatas[2].computed_data = Some(ComputedData(120, 20))

\* The measurement of node n has started in the frame under way
Started(n) ==
    \E i \in DOMAIN trace :
      trace[i].ev = "measure_start" /\ trace[i].frame = frame /\ trace[i].node = n

\* Node n is a child of a surface other than the surface's first child
FurtherChildOfSurface(n) ==
    /\ tree[n].parent # 0
    /\ tree[tree[n].parent].component.kind = "surface"
    /\ n # Head(tree[tree[n].parent].children)

CommandNodes == {commands[i].node : i \in DOMAIN commands}

\* C16: a child its parent does not measure is never placed and neither it
\* nor any node below it contributes a draw command; a surface measures and
\* places its first child only.
C16_UnmeasuredChildrenExcluded ==
    \A n \in DOMAIN tree :
      /\ FurtherChildOfSurface(n) => ~Started(n)
      /\ (tree[n].parent # 0 /\ ~Started(n)) =>
           \A m \in Subtree(n) :
             /\ ~Started(m)
             /\ metadatas[m].rel_position = None
             /\ metadatas[m].computed_data = None
             /\ pc = "computed" => m \notin CommandNodes

C16_Witness ==
    /\ pc = "computed"
    /\ ret.ok
    /\ Len(tree) = 5
    /\ FurtherChildOfSurface(4)
    /\ Subtree(4) = {4, 5}
    /\ CommandNodes = {1, 2, 3}

\* C17: in the draw commands of every frame the command of a node comes
\* before the command of each of its descendants.
C17_ParentDrawnBeforeDescendants ==
    pc = "computed" =>
      \A i \in DOMAIN commands : \A j \in DOMAIN commands :
        commands[i].node \in Ancestors(commands[j].node) => i < j

C17_Witness ==
    /\ pc = "computed"
    /\ Len(commands) = 3
    /\ commands[1].node = 1
    /\ commands[3].node = 3
    /\ Ancestors(3) = {1, 2}

\* The position recorded for node n relative to its parent; the root is
\* never placed and lies at the origin
RelativePosition(n) ==
    IF IsSome(metadatas[n].rel_position) THEN Unwrap(metadatas[n].rel_position)
    ELSE PxPosition(0, 0)

RECURSIVE SumOfPositions(_)
\* The component-wise sum of the relative positions of n and its ancestors
SumOfPositions(n) ==
    IF tree[n].parent = 0 THEN RelativePosition(n)
    ELSE LET above == SumOfPositions(tree[n].parent) IN
         PxPosition(above.x + RelativePosition(n).x, above.y + RelativePosition(n).y)

\* C18: the absolute position of every draw command is the component-wise
\* sum of the relative positions recorded for its node and for each of the
\* node's ancestors up to the root.
C18_AbsoluteIsSumOfRelative ==
    pc = "computed" =>
      \A i \in DOMAIN commands :
        commands[i].position = SumOfPositions(commands[i].node)

C18_Witness ==
    /\ pc = "computed"
    /\ Len(commands) = 3
    /\ metadatas[2].rel_position = Some(PxPosition(20, 20))
    /\ metadatas[3].rel_position = Some(PxPosition(10, 10))
    /\ commands[3] = [node |-> 3, position |-> PxPosition(30, 30), drawable |-> "Text"]

\* A measure_node call for node n is on the call stack
OnStack(n) == \E i \in DOMAIN stack : stack[i].node = n

\* The state of node n in the frame under way: 0 Unmeasured, 1 Measuring
\* (its measurement has started and has returned no size), 2 Measured,
\* 3 Placed; -1 when it is in none of them (placed without a size, or
\* measured again after it returned a size)
NodeRank(n) ==
    LET sized == IsSome(metadatas[n].computed_data)
        placed == IsSome(metadatas[n].rel_position)
    IN IF sized /\ placed /\ ~OnStack(n) THEN 3
       ELSE IF sized /\ ~placed /\ ~OnStack(n) THEN 2
       ELSE IF ~sized /\ ~placed /\ (OnStack(n) \/ Started(n)) THEN 1
       ELSE IF ~sized /\ ~placed THEN 0
       ELSE -1

\* C19: until the tree is cleared every node is in one of the states
\* Unmeasured, Measuring, Measured, Placed and moves through them forward,
\* one state at a time: it is placed only after its measurement returned a
\* size and never returns to an earlier state.
C19_NodesMoveForward ==
    [][(tree # <<>> /\ tree' = tree) =>
         \A n \in DOMAIN tree :
           /\ NodeRank(n) >= 0
           /\ NodeRank(n)' >= NodeRank(n)
           /\ NodeRank(n)' <= NodeRank(n) + 1]_vars

C19_Witness ==
    /\ pc = "computed"
    /\ frame = 1
    /\ Len(tree) = 3
    /\ NodeRank(1) = 2
    /\ NodeRank(2) = 3
    /\ NodeRank(3) = 3

\* The ends of the compute calls made so far
ComputeEnds == {i \in DOMAIN trace : trace[i].ev \in {"extract", "failed"}}

\* What the events of a sequence say, without their identities
Contents(events) == [k \in DOMAIN events |-> events[k].content]

\* The state outside the tree that the closures of frame f captured, as the
\* application left it: whether the switch is checked and when it was last
\* toggled, and whether the closure that fails later has run before
CapturedState(f) ==
    [checked |-> history[f + 1].state.checked,
     last_toggle_time |-> history[f + 1].state.last_toggle_time,
     first_frame |-> (\E k \in DOMAIN app.chain : app.chain[k].kind = "failing_later")
                       /\ f = 0]

\* Frames f and g ran compute on the same screen size, cursor position,
\* cursor events, keyboard events and captured state
SameInputs(f, g) ==
    /\ history[f + 1].cursor_position = history[g + 1].cursor_position
    /\ Contents(history[f + 1].cursor_events) = Contents(history[g + 1].cursor_events)
    /\ Contents(history[f + 1].keyboard_events) = Contents(history[g + 1].keyboard_events)
    /\ CapturedState(f) = CapturedState(g)

\* The clock readings of frame f: for each state handler called, the time
\* elapsed since the last toggle, when it read it
ElapsedOf(f) ==
    LET d == SelectSeq(trace, LAMBDA e : e.ev = "dispatch" /\ e.frame = f)
    IN [k \in DOMAIN d |-> d[k].elapsed]

ProbePast(stages) == probe.stage \in stages

\* A completed step whose arithmetic left the i32 range: the doubling of the
\* padding, a subtraction of the doubled padding, or the content-plus-padding
\* sum.  In a build with overflow checks such a step panics instead.
SilentlyWrapped ==
    \/ /\ ProbePast({"merged", "offered", "measured", "done"})
       /\ Mul2Overflows(probe.padding)
    \/ /\ ProbePast({"offered", "measured", "done"})
       /\ child_constraint_overflows(probe.effective, probe.parent,
                                     PxMul2(probe.padding))
    \/ /\ ProbePast({"done"})
       /\ AddOverflows(probe.child_size, PxMul2(probe.padding))

\* C21: pixel arithmetic during merge, measurement and placement never
\* silently wraps around the i32 range, and every length a subtraction
\* produces (and the final size) is floored at zero, for all sizes and
\* paddings.
C21_NoSilentWrapAndFloored ==
    /\ ~SilentlyWrapped
    /\ C5_ChildLengthNeverNegative
    /\ ProbePast({"done"}) => probe.final >= 0

\* --------------------------------------------------------------------------
\* A row of small boxes under MainAxisAlignment::SpaceEvenly
\* --------------------------------------------------------------------------
MaxLeaves == 3

\* alignment_showcase.rs: small_box, a surface Fixed(40) x Fixed(40) with
\* padding Dp(8) (8 px at scale factor 1) around a one-character text
SmallBox == SurfaceC(Some(Fixed(40)), Some(Fixed(40)), 8)

\* The widths a row is given by its container; 380 is what the showcase's
\* demo container (Fixed(400), padding 10) leaves to its row.
RowWidths == {100, 380, 400}

\* The widths the text inside a small box may be laid out to.
LeafContentValues == {0, 12, 24}

\* The width a leaf surface measures to when the row offers it at most
\* `available` and its content measures content_width.
leaf_width(leaf, available, content_width) ==
    final_surface_dim(effective_surface_dim(leaf.width, Wrap(None, Some(available))),
                      content_width, PxMul2(leaf.padding))

RECURSIVE SumSeq(_)
SumSeq(s) == IF s = <<>> THEN 0 ELSE Head(s) + SumSeq(Tail(s))

\* SpaceEvenly: the space the children leave is divided into one gap before,
\* between and after them; child i starts after i gaps and the children
\* before it.
space_evenly_positions(available, widths) ==
    LET remaining == PxMax(available - SumSeq(widths), 0)
        gap == TruncDiv(remaining, Len(widths) + 1)
    IN [i \in 1..Len(widths) |-> (gap * i) + SumSeq(SubSeq(widths, 1, i - 1))]

RowInit ==
    /\ overflow_checks = FALSE
    /\ \E n \in 1..MaxLeaves, w \in RowWidths :
         probe = [stage |-> "row_measuring", alignment |-> "SpaceEvenly",
                  available |-> w, leaves |-> [i \in 1..n |-> SmallBox],
                  contents |-> <<>>, widths |-> <<>>, positions |-> <<>>]
    /\ app = [chain |-> <<>>, extra |-> <<>>]
    /\ switch_state = SwitchStateNew(FALSE)
    /\ pc = "off"
    /\ RendererStart

\* The row measures its next child, which measures its own content first.
RowMeasureLeaf ==
    /\ probe.stage = "row_measuring"
    /\ Len(probe.widths) < Len(probe.leaves)
    /\ \E content_width \in LeafContentValues :
         probe' = [probe EXCEPT
             !.contents = Append(@, content_width),
             !.widths = Append(@, leaf_width(probe.leaves[Len(probe.widths) + 1],
                                             probe.available, content_width))]
    /\ UNCHANGED <<overflow_checks, rendererVars>>

\* All children measured: the row places them along its main axis.
RowPlace ==
    /\ probe.stage = "row_measuring"
    /\ Len(probe.widths) = Len(probe.leaves)
    /\ probe' = [probe EXCEPT
           !.stage = "row_placed",
           !.positions = space_evenly_positions(probe.available, probe.widths)]
    /\ UNCHANGED <<overflow_checks, rendererVars>>

RowNext == RowMeasureLeaf \/ RowPlace

SpecRow == RowInit /\ [][RowNext]_vars

\* The gaps a placed row leaves: before the first child, between neighbours
\* and after the last child.
RowGaps ==
    LET n == Len(probe.positions)
        end(i) == probe.positions[i] + probe.widths[i]
    IN [i \in 1..(n + 1) |->
          IF i = 1 THEN probe.positions[1]
          ELSE IF i = n + 1 THEN probe.available - end(n)
          ELSE probe.positions[i] - end(i - 1)]

ThreeBoxesIn400 ==
    /\ probe.stage = "row_placed"
    /\ probe.available = 400
    /\ probe.leaves = <<SmallBox, SmallBox, SmallBox>>

\* C22: three Fixed(40 x 40) leaves placed by a row under SpaceEvenly with
\* available width 400 leave four equal gaps which together with the 120 px
\* of content sum to 400 px, and each leaf's x-position is the same on every
\* run (70, 180, 290 whatever the leaves' contents measure to).
C22_SpaceEvenlyThreeBoxes ==
    ThreeBoxesIn400 =>
      /\ Len(RowGaps) = 4
      /\ \A i \in 1..4 : RowGaps[i] = RowGaps[1]
      /\ SumSeq(RowGaps) + 120 = 400
      /\ SumSeq(probe.widths) = 120
      /\ probe.positions = <<70, 180, 290>>

C22_Witness ==
    /\ ThreeBoxesIn400
    /\ probe.contents = <<0, 12, 24>>
    /\ probe.widths = <<40, 40, 40>>
    /\ RowGaps = <<70, 70, 70, 70>>

\* --------------------------------------------------------------------------
\* px.rs: Px::abs, the saturating operations and the PxPosition conversions
\* --------------------------------------------------------------------------

\* An integer wider than i32 (a u32, or the exact sum of two i32), held as
\* hi * 2^16 + lo with 0 <= lo < 2^16.
Wide(v) == [hi |-> v \div 65536, lo |-> v % 65536]

WideAdd(x, y) ==
    LET l == x.lo + y.lo IN [hi |-> x.hi + y.hi + (l \div 65536), lo |-> l % 65536]

WideSub(x, y) ==
    LET l == x.lo - y.lo IN [hi |-> (x.hi - y.hi) + (l \div 65536), lo |-> l % 65536]

WideLeq(x, y) == x.hi < y.hi \/ (x.hi = y.hi /\ x.lo <= y.lo)

\* `value as i32` for a u32: the same 32 bits read as two's complement
u32_as_i32(u) ==
    IF u.hi >= 32768 THEN ((u.hi - 65536) * 65536) + u.lo ELSE (u.hi * 65536) + u.lo

\* `value as u32` for an i32
i32_as_u32(v) == IF v >= 0 THEN Wide(v) ELSE [hi |-> (v \div 65536) + 65536, lo |-> v % 65536]

\* A plausible slip: the mathematical absolute value.
abs_negating(v) == IF v >= 0 THEN i32_as_u32(v) ELSE WideSub(Wide(0), Wide(v))

\* Px::abs: self.0.max(0) as u32
abs(v) == i32_as_u32(PxMax(v, 0))

\* A plausible slip: the plain operator in place of the saturating one.
saturating_add_wrapping(a, b) == PxAdd(a, b)

\* Px::saturating_add: i32::saturating_add
saturating_add(a, b) ==
    IF AddOverflows(a, b) THEN (IF b > 0 THEN I32_MAX ELSE I32_MIN) ELSE a + b

\* Px::saturating_sub: i32::saturating_sub
saturating_sub(a, b) ==
    IF SubOverflows(a, b) THEN (IF b > 0 THEN I32_MIN ELSE I32_MAX) ELSE a - b

\* PxPosition::saturating_offset
saturating_offset(pos, dx, dy) ==
    PxPosition(saturating_add(pos.x, dx), saturating_add(pos.y, dy))

\* impl From<[i32; 2]> for PxPosition
from_i32_arr(pos) == PxPosition(pos[1], pos[2])

\* A plausible slip: the clamping of the u32 conversion copied to the i32 one.
into_i32_arr_clamped(pos) == <<PxMax(pos.x, 0), PxMax(pos.y, 0)>>

\* impl From<PxPosition> for [i32; 2]
into_i32_arr(pos) == <<pos.x, pos.y>>

\* impl From<[u32; 2]> for PxPosition
from_u32_arr(pos) == PxPosition(u32_as_i32(pos[1]), u32_as_i32(pos[2]))

\* impl From<PxPosition> for [u32; 2]
into_u32_arr(pos) == <<abs(pos.x), abs(pos.y)>>

\* i32 values: the ends of the range, their neighbours and ordinary lengths
PxValues == {I32_MIN, -I32_MAX, -5, 0, 10, I32_MAX - 1, I32_MAX}

\* u32 values: 5, 10, i32::MAX, 2^31 and u32::MAX
U32Values ==
    {Wide(5), Wide(10), Wide(I32_MAX), [hi |-> 32768, lo |-> 0],
     [hi |-> 65535, lo |-> 65535]}

PxProbeOff ==
    [stage |-> "px_input", a |-> 0, b |-> 0, i32_pos |-> <<0, 0>>,
     u32_pos |-> <<Wide(0), Wide(0)>>, result |-> 0,
     position |-> PxPosition(0, 0)]

\* The arguments a caller passes: two lengths, an [i32; 2] and a [u32; 2].
PxInit ==
    /\ overflow_checks \in BOOLEAN
    /\ \E a \in PxValues, b \in PxValues, u \in U32Values, v \in U32Values :
         probe = [PxProbeOff EXCEPT !.a = a, !.b = b, !.i32_pos = <<a, b>>,
                                    !.u32_pos = <<u, v>>]
    /\ app = [chain |-> <<>>, extra |-> <<>>]
    /\ switch_state = SwitchStateNew(FALSE)
    /\ pc = "off"
    /\ RendererStart

PxAbs ==
    /\ probe.stage = "px_input"
    /\ probe' = [probe EXCEPT !.stage = "abs", !.result = abs(probe.a)]
    /\ UNCHANGED <<overflow_checks, rendererVars>>

PxSaturatingAdd ==
    /\ probe.stage = "px_input"
    /\ probe' = [probe EXCEPT !.stage = "saturating_add",
                              !.result = saturating_add(probe.a, probe.b)]
    /\ UNCHANGED <<overflow_checks, rendererVars>>

PxSaturatingSub ==
    /\ probe.stage = "px_input"
    /\ probe' = [probe EXCEPT !.stage = "saturating_sub",
                              !.result = saturating_sub(probe.a, probe.b)]
    /\ UNCHANGED <<overflow_checks, rendererVars>>

\* PxPosition::new(a, b).saturating_offset(b, b)
PxSaturatingOffset ==
    /\ probe.stage = "px_input"
    /\ probe' = [probe EXCEPT
           !.stage = "saturating_offset",
           !.position = saturating_offset(from_i32_arr(probe.i32_pos), probe.b, probe.b)]
    /\ UNCHANGED <<overflow_checks, rendererVars>>

\* let px_pos: PxPosition = i32_pos.into();
PxFromI32Arr ==
    /\ probe.stage = "px_input"
    /\ probe' = [probe EXCEPT !.stage = "from_i32",
                              !.position = from_i32_arr(probe.i32_pos)]
    /\ UNCHANGED <<overflow_checks, rendererVars>>

\* let back_to_i32: [i32; 2] = px_pos.into();
PxIntoI32Arr ==
    /\ probe.stage = "from_i32"
    /\ probe' = [probe EXCEPT !.stage = "back_to_i32",
                              !.result = into_i32_arr(probe.position)]
    /\ UNCHANGED <<overflow_checks, rendererVars>>

\* let px_from_u32: PxPosition = u32_pos.into();
PxFromU32Arr ==
    /\ probe.stage = "px_input"
    /\ probe' = [probe EXCEPT !.stage = "from_u32",
                              !.position = from_u32_arr(probe.u32_pos)]
    /\ UNCHANGED <<overflow_checks, rendererVars>>

\* let back_to_u32: [u32; 2] = px_from_u32.into();
PxIntoU32Arr ==
    /\ probe.stage = "from_u32"
    /\ probe' = [probe EXCEPT !.stage = "back_to_u32",
                              !.result = into_u32_arr(probe.position)]
    /\ UNCHANGED <<overflow_checks, rendererVars>>

PxNext ==
    \/ PxAbs \/ PxSaturatingAdd \/ PxSaturatingSub \/ PxSaturatingOffset
    \/ PxFromI32Arr \/ PxIntoI32Arr \/ PxFromU32Arr \/ PxIntoU32Arr

SpecPx == PxInit /\ [][PxNext]_vars

\* --------------------------------------------------------------------------
\* Claims about px.rs (checked under SpecPx)
\* --------------------------------------------------------------------------
I32RoundTrip == probe.stage = "back_to_i32" => probe.result = probe.i32_pos

U32RoundTrip == probe.stage = "back_to_u32" => probe.result = probe.u32_pos

\* C23 as stated: [i32;2] -> PxPosition -> [i32;2] returns the original pair
\* for every [i32; 2], and [u32;2] -> PxPosition -> [u32;2] returns the
\* original pair for every [u32; 2].
C23_RoundTripsAreIdentity == I32RoundTrip /\ U32RoundTrip

FitsI32(u) == WideLeq(u, Wide(I32_MAX))

\* C23 as amended: the [i32; 2] round trip is the identity for every pair,
\* and the [u32; 2] round trip is the identity for every pair whose two
\* components are at most i32::MAX.
C23_RoundTripsWithinI32 ==
    /\ I32RoundTrip
    /\ (probe.stage = "back_to_u32" /\ FitsI32(probe.u32_pos[1])
          /\ FitsI32(probe.u32_pos[2])) => probe.result = probe.u32_pos

C23_Witness ==
    /\ probe.stage = "back_to_u32"
    /\ probe.u32_pos = <<Wide(10), Wide(I32_MAX)>>
    /\ probe.position = PxPosition(10, I32_MAX)
    /\ probe.result = <<Wide(10), Wide(I32_MAX)>>

\* The mathematical value x clamped to [i32::MIN, i32::MAX].
WideClamp(x) ==
    IF WideLeq(x, Wide(I32_MIN)) THEN I32_MIN
    ELSE IF WideLeq(Wide(I32_MAX), x) THEN I32_MAX
    ELSE (x.hi * 65536) + x.lo

\* C24: saturating_add and saturating_sub return the mathematical a + b
\* (resp. a - b) clamped to [i32::MIN, i32::MAX] for all a and b, and
\* saturating_offset does so for each coordinate.
C24_SaturatingNeverWraps ==
    /\ probe.stage = "saturating_add" =>
         probe.result = WideClamp(WideAdd(Wide(probe.a), Wide(probe.b)))
    /\ probe.stage = "saturating_sub" =>
         probe.result = WideClamp(WideSub(Wide(probe.a), Wide(probe.b)))
    /\ probe.stage = "saturating_offset" =>
         /\ probe.position.x = WideClamp(WideAdd(Wide(probe.i32_pos[1]), Wide(probe.b)))
         /\ probe.position.y = WideClamp(WideAdd(Wide(probe.i32_pos[2]), Wide(probe.b)))

C24_Witness ==
    /\ probe.stage = "saturating_add"
    /\ probe.a = I32_MAX
    /\ probe.b = 10
    /\ probe.result = I32_MAX

WideMax(x, y) == IF WideLeq(x, y) THEN y ELSE x

WideMin(x, y) == IF WideLeq(x, y) THEN x ELSE y

\* child + 2 * padding, raised to min, lowered to max and floored at 0, over
\* the integers.
WrapFinalSize(child, padding, min, max) ==
    LET content == WideAdd(Wide(child), WideAdd(Wide(padding), Wide(padding)))
        raised == IF IsSome(min) THEN WideMax(content, Wide(Unwrap(min))) ELSE content
        lowered == IF IsSome(max) THEN WideMin(raised, Wide(Unwrap(max))) ELSE raised
    IN WideMax(lowered, Wide(0))

\* C26: a surface whose effective dimension is Wrap{min,max} ends with the
\* size child + 2 * padding, raised to min when present, then lowered to max
\* when present, then floored at 0; without a child the child counts as 0.
C26_WrapFinalSize ==
    (probe.stage = "done" /\ probe.effective.kind = "Wrap") =>
      Wide(probe.final) =
        WrapFinalSize(IF probe.has_child THEN probe.child_size ELSE 0,
                      probe.padding, probe.effective.min, probe.effective.max)

\* The upper bound of the surface's effective dimension, if it has one.
EffectiveBound ==
    IF probe.effective.kind = "Fixed" THEN Some(probe.effective.v)
    ELSE probe.effective.max

\* The child's size is within the dimension the surface offered it.
ChildWithinOffer ==
    LET bound == IF probe.child_constraint.kind = "Fixed"
                   THEN Some(probe.child_constraint.v)
                   ELSE probe.child_constraint.max
        min == IF probe.child_constraint.kind = "Fixed" THEN None
               ELSE probe.child_constraint.min
    IN /\ IsSome(bound) => probe.child_size <= Unwrap(bound)
       /\ IsSome(min) => probe.child_size >= Unwrap(min)

ChildInsideContentBox ==
    probe.padding + probe.child_size <= probe.final - probe.padding

IdsOf(events) == [i \in DOMAIN events |-> events[i].id]

Ascending(ids) == \A i \in DOMAIN ids : \A j \in DOMAIN ids : i < j => ids[i] < ids[j]

\* How often the event with identity id has been passed to a compute call.
Deliveries(id) ==
    Cardinality({<<f, i>> \in (DOMAIN history) \X (1..MaxEvents) :
                   i \in DOMAIN history[f].cursor_events
                     /\ history[f].cursor_events[i].id = id})
      + Cardinality({<<f, i>> \in (DOMAIN history) \X (1..MaxEvents) :
                       i \in DOMAIN history[f].keyboard_events
                         /\ history[f].keyboard_events[i].id = id})

Queued(id) ==
    \/ \E i \in DOMAIN cursor_state.events : cursor_state.events[i].id = id
    \/ \E i \in DOMAIN keyboard_state.events : keyboard_state.events[i].id = id

HandlerRuns == pc = "dispatch" /\ handlers_pending # <<>> /\ handlers_pending' = Tail(handlers_pending)

\* The on_toggle calls the handler running in this step makes.
NewToggleCalls == SubSeq(toggle_calls', Len(toggle_calls) + 1, Len(toggle_calls'))

\* C29: a run of the switch's state handler calls on_toggle exactly once,
\* with argument !checked, when the frame's cursor events contain a
\* Pressed(Left), and not at all otherwise, however many presses there are
\* and wherever the cursor is; SwitchState.checked changes in such a step
\* only through the on_toggle callback, never through the handler itself.
C29_OnToggleAtMostOncePerFrame ==
    [][HandlerRuns =>
         /\ SubSeq(toggle_calls', 1, Len(toggle_calls)) = toggle_calls
         /\ NewToggleCalls =
              IF HasLeftPress(cursor_events)
                THEN <<~tree[Head(handlers_pending)].component.checked>>
                ELSE <<>>
         /\ NewToggleCalls = <<>> => switch_state'.checked = switch_state.checked]_vars

C29_Witness ==
    /\ pc = "dispatch"
    /\ handlers_pending = <<>>
    /\ Cardinality(HandlerNodes) = 1
    /\ Cardinality({i \in DOMAIN cursor_events :
                      cursor_events[i].content = <<"Pressed", "Left">>}) = 2
    /\ history[frame + 1].cursor_position = None
    /\ toggle_calls = <<TRUE>>

\* --------------------------------------------------------------------------
\* The locks of a shared Arc<Mutex<SwitchState>>: the frame thread runs the
\* switch's state handler and measure closure, another thread toggles the
\* state.  parking_lot::Mutex is not reentrant.
\* --------------------------------------------------------------------------
MaxLockFrames == 2
MaxToggles == 2

Threads == {"frame", "other"}

Locks == {"state", "progress", "last_toggle_time"}

Lock(l) == [op |-> "lock", lock |-> l]

Unlock(l) == [op |-> "unlock", lock |-> l]

Op(name) == [op |-> name, lock |-> "none"]

\* A plausible slip: on_toggle is called inside the block that holds the
\* guards.
state_handler_program_calling_inside ==
    <<Lock("state"), Lock("progress"), Lock("last_toggle_time"), Op("animate"),
      Op("on_toggle"),
      Unlock("last_toggle_time"), Unlock("progress"), Unlock("state")>>

\* The switch's state handler with state = Some(..): the guards are taken
\* in the order state, progress, last_toggle_time and dropped where the
\* if-let block ends; the clicks are counted and on_toggle called after it.
state_handler_program ==
    <<Lock("state"), Lock("progress"), Lock("last_toggle_time"), Op("animate"),
      Unlock("last_toggle_time"), Unlock("progress"), Unlock("state"),
      Op("on_toggle")>>

\* The switch's measure closure: *s.lock().progress.lock()
measure_program ==
    <<Lock("state"), Lock("progress"), Op("read_progress"),
      Unlock("progress"), Unlock("state")>>

\* SwitchState::toggle(&mut self)
toggle_program ==
    <<Op("flip_checked"), Lock("last_toggle_time"), Op("store_time"),
      Unlock("last_toggle_time")>>

\* state.lock().toggle(), as an on_toggle callback or another thread does it
locked_toggle_program == <<Lock("state")>> \o toggle_program \o <<Unlock("state")>>

LocksOff ==
    [stage |-> "locks",
     code |-> [t \in Threads |-> <<>>],
     owner |-> [l \in Locks |-> "free"],
     held |-> [t \in Threads |-> <<>>],
     state |-> SwitchStateNew(FALSE),
     read |-> 0,
     frames |-> 0,
     toggles |-> 0]

LocksInit ==
    /\ overflow_checks = FALSE
    /\ probe = LocksOff
    /\ app = [chain |-> <<SwitchC>>, extra |-> <<>>]
    /\ switch_state = SwitchStateNew(FALSE)
    /\ pc = "off"
    /\ RendererStart

locksUnchanged == <<overflow_checks, rendererVars>>

\* The operation thread t executes next.
NextOp(t) == Head(probe.code[t])

At(t, name) == probe.code[t] # <<>> /\ NextOp(t).op = name

Advance(t) == [probe EXCEPT !.code[t] = Tail(@)]

\* A frame starts: the handler of the switch runs, then its measure closure.
FrameStart ==
    /\ probe.code["frame"] = <<>>
    /\ probe.frames < MaxLockFrames
    /\ probe' = [probe EXCEPT !.code["frame"] = state_handler_program \o measure_program,
                              !.frames = @ + 1]
    /\ UNCHANGED locksUnchanged

\* The other thread sets out to toggle the switch.
OtherStart ==
    /\ probe.code["other"] = <<>>
    /\ probe.toggles < MaxToggles
    /\ probe' = [probe EXCEPT !.code["other"] = locked_toggle_program,
                              !.toggles = @ + 1]
    /\ UNCHANGED locksUnchanged

\* Mutex::lock: blocks while the mutex is held by any thread, the caller
\* included.
Acquire(t) ==
    /\ At(t, "lock")
    /\ probe.owner[NextOp(t).lock] = "free"
    /\ probe' = [Advance(t) EXCEPT !.owner[NextOp(t).lock] = t,
                                   !.held[t] = Append(@, NextOp(t).lock)]
    /\ UNCHANGED locksUnchanged

\* A guard is dropped.
Release(t) ==
    /\ At(t, "unlock")
    /\ probe' = [Advance(t) EXCEPT
           !.owner[NextOp(t).lock] = "free",
           !.held[t] = SelectSeq(@, LAMBDA l : l # NextOp(t).lock)]
    /\ UNCHANGED locksUnchanged

\* The handler's animation step under the three guards.
Animate ==
    /\ At("frame", "animate")
    /\ \E fraction \in AnimationFractions :
         probe' = [Advance("frame") EXCEPT !.state.progress =
                     IF IsSome(probe.state.last_toggle_time)
                       THEN (IF probe.state.checked THEN fraction ELSE 100 - fraction)
                       ELSE @]
    /\ UNCHANGED locksUnchanged

\* if clicks > 0 { on_toggle(!checked) }: the callback, when called, locks
\* the state and toggles it.
OnToggle ==
    /\ At("frame", "on_toggle")
    /\ \E clicked \in BOOLEAN :
         probe' = [probe EXCEPT !.code["frame"] =
                     IF clicked THEN locked_toggle_program \o Tail(@) ELSE Tail(@)]
    /\ UNCHANGED locksUnchanged

\* The measure closure reads the progress.
ReadProgress ==
    /\ At("frame", "read_progress")
    /\ probe' = [Advance("frame") EXCEPT !.read = probe.state.progress]
    /\ UNCHANGED locksUnchanged

\* toggle: self.checked = !self.checked
FlipChecked(t) ==
    /\ At(t, "flip_checked")
    /\ probe' = [Advance(t) EXCEPT !.state.checked = ~@]
    /\ UNCHANGED locksUnchanged

\* toggle: *self.last_toggle_time.lock() = Some(Instant::now())
StoreTime(t) ==
    /\ At(t, "store_time")
    /\ probe' = [Advance(t) EXCEPT !.state.last_toggle_time = Some(probe.frames)]
    /\ UNCHANGED locksUnchanged

LocksNext ==
    \/ FrameStart
    \/ OtherStart
    \/ \E t \in Threads : Acquire(t)
    \/ \E t \in Threads : Release(t)
    \/ Animate
    \/ OnToggle
    \/ ReadProgress
    \/ \E t \in Threads : FlipChecked(t)
    \/ \E t \in Threads : StoreTime(t)

SpecLocks == LocksInit /\ [][LocksNext]_vars

\* --------------------------------------------------------------------------
\* Claims about the switch's locks (checked under SpecLocks)
\* --------------------------------------------------------------------------

\* Thread t is blocked in Mutex::lock.
Waiting(t) == At(t, "lock") /\ probe.owner[NextOp(t).lock] # "free"

\* Thread t has nothing left to do.
Finished(t) ==
    /\ probe.code[t] = <<>>
    /\ IF t = "frame" THEN probe.frames = MaxLockFrames ELSE probe.toggles = MaxToggles

\* Some thread is blocked and no thread can take a step.
Deadlocked ==
    /\ \E t \in Threads : Waiting(t)
    /\ \A t \in Threads : Waiting(t) \/ Finished(t)

LockRank(l) == IF l = "state" THEN 1 ELSE IF l = "progress" THEN 2 ELSE 3

\* The locks a thread holds were taken in the order state, progress,
\* last_toggle_time, the inner ones only under the state lock.
HeldInOrder(t) ==
    LET h == probe.held[t] IN
    /\ \A i \in DOMAIN h : \A j \in DOMAIN h : i < j => LockRank(h[i]) < LockRank(h[j])
    /\ h # <<>> => h[1] = "state"

\* C30: with the frame thread running the switch's handler and measure
\* closure and another thread (or the on_toggle callback) locking the state
\* to toggle it, no interleaving deadlocks; the inner locks are taken only
\* under the state lock, in the order state, progress, last_toggle_time, and
\* the state lock is not held when on_toggle is invoked.
C30_NoDeadlock ==
    /\ ~Deadlocked
    /\ \A t \in Threads : HeldInOrder(t)
    /\ At("frame", "on_toggle") => probe.held["frame"] = <<>>

C30_Witness ==
    /\ probe.held["frame"] = <<"state", "last_toggle_time">>
    /\ Waiting("other")
    /\ probe.frames = 2
    /\ probe.toggles = 2

====
